---------------------------- MODULE Spec2Model ----------------------------
(***************************************************************************)
(* A model of the rewrite core of c2rust-analyze:                          *)
(*   - Rewrite::pretty / Display      (src/c2rust-analyze/src/rewrite/mod.rs) *)
(*   - the type rewrite generator     (src/c2rust-analyze/src/rewrite/ty.rs)  *)
(*   - apply_rewrites' output loop    (src/c2rust-analyze/src/rewrite/mod.rs) *)
(* and of the node information of the pointer derivation graph:            *)
(*   - augment_with_info              (src/pdg/src/info.rs)                *)
(* Each part has its own specification (SpecPretty, SpecTy, SpecApply,     *)
(* SpecInfo);                                                              *)
(* the variables of the other parts stay at their idle values.             *)
(***************************************************************************)
EXTENDS Integers, Sequences, FiniteSets, TLC

VARIABLES
    rw,        \* pretty: the Rewrite tree handed to Display
    out,       \* pretty: the fragments written to the formatter, in order
    ppc,       \* pretty: "start" before Display::fmt ran, "rendered" after
    prog,          \* ty: the function, its structs and the ADT metadata
    hir_rewrites,  \* ty: HirTyVisitor::hir_rewrites
    visited,       \* ty: the handle_ty calls made so far, in order
    tpc,           \* ty: where gen_ty_rewrites is
    cursor,        \* ty: the index of the next input, local or item
    pending,       \* ty: the functions of the unit gen_ty_rewrites is still to run on
    unit_rewrites, \* ty: the concatenated results of the finished runs
    new_src,       \* apply: the rewritten files, in iteration order
    file_idx,      \* apply: the index of the file the loop is at
    written,       \* apply: the paths written so far
    stderr,        \* apply: the lines logged so far
    apc,           \* apply: "loop", "returned" or "panicked"
    pdg,           \* info: Graphs::graphs, each graph its sequence of nodes
    graph_idx,     \* info: the index of the graph augment_with_info is at
    node_idx,      \* info: the index of the node the current loop is at
    idx_maps,      \* info: the five HashMaps of the current graph
    ipc,           \* info: "check" (first loop), "assign" (second) or "done"
    dec_in,        \* deconstruct: the pair (ty, hir_ty) handed to deconstruct_hir_ty
    dec_out,       \* deconstruct: what deconstruct_hir_ty returned
    zipped,        \* deconstruct: the child pairs handle_ty iterates over
    dpc,           \* deconstruct: "start", "deconstructed" or "zipped"
    ugraph,          \* uniqueness: the graph create_uniqueness_info is called on
    downward,        \* uniqueness: collect_children(g)
    flow_info,       \* uniqueness: create_flow_info(g)
    u_to_view,       \* uniqueness: the work-list to_view of (node, field path)
    path_to_fields,  \* uniqueness: the nodes recorded under each field path
    curidx,          \* uniqueness: the node popped last, 0 before the first pop
    upc,             \* uniqueness: "start", "view", "loop" or "panicked"
    aug_pdg,         \* augment: the graphs, with the node_info set so far
    aug_graph_idx,   \* augment: the graph of the outer loop
    aug_node_idx,    \* augment: the node of the inner loop
    aug_maps,        \* augment: the five maps of the current graph
    aug_call,        \* augment: which of the five searches of the body runs
    aug_locals,      \* augment: the local variables of the running search
    aug_pc           \* augment: the loop that runs, or "done"

\* Option::None; a present value is the value itself or Some(v).
None == [k |-> "None"]

prettyVars == <<rw, out, ppc>>
tyVars == <<prog, hir_rewrites, visited, tpc, cursor, pending, unit_rewrites>>
applyVars == <<new_src, file_idx, written, stderr, apc>>
infoVars == <<pdg, graph_idx, node_idx, idx_maps, ipc>>
decVars == <<dec_in, dec_out, zipped, dpc>>
uniqVars == <<ugraph, downward, flow_info, u_to_view, path_to_fields, curidx, upc>>
augVars == <<aug_pdg, aug_graph_idx, aug_node_idx, aug_maps, aug_call, aug_locals, aug_pc>>
vars ==
    <<rw, out, ppc, prog, hir_rewrites, visited, tpc, cursor,
      pending, unit_rewrites,
      new_src, file_idx, written, stderr, apc,
      pdg, graph_idx, node_idx, idx_maps, ipc,
      dec_in, dec_out, zipped, dpc,
      ugraph, downward, flow_info, u_to_view, path_to_fields, curidx, upc,
      aug_pdg, aug_graph_idx, aug_node_idx, aug_maps, aug_call, aug_locals, aug_pc>>

(***************************************************************************)
(* Bounds of the model.                                                    *)
(***************************************************************************)
\* Largest number of nodes of a Rewrite tree over all expression node kinds.
MaxSize == 4
\* Largest number of nodes of a Rewrite tree over Identity/Ref/Index/Cast.
MaxSizeCore == 5
\* Largest number of arguments of a Call or MethodCall node.
MaxArgs == 2
\* Largest number of nodes of a parameter's resolved type.
MaxTyNodes == 3
\* Largest number of parameters of the function.
MaxParams == 2
\* Largest number of declared generic parameters of a struct.
MaxGenerics == 2
\* Largest number of lifetime parameters the metadata gives a struct.
MaxLifetimes == 2
\* Largest number of rewritten files.
MaxFiles == 3
\* Largest number of nodes of a graph over all node kinds.
MaxNodes == 3
\* Largest number of nodes of a graph over the kinds Copy, Field and Store.
MaxLineageNodes == 4
\* Largest number of elements of a tuple handed to deconstruct_hir_ty.
MaxTupleArity == 3
\* Largest number of functions of a compilation unit.
MaxFns == 2

(***************************************************************************)
(* enum Rewrite (mod.rs:47-89).  Mutability is "Not" or "Mut".             *)
(***************************************************************************)
Mutability == {"Not", "Mut"}

Identity == [k |-> "Identity"]
Sub(i, span) == [k |-> "Sub", i |-> i, span |-> span]
Ref(t, m) == [k |-> "Ref", rw |-> t, mutbl |-> m]
AddrOf(t, m) == [k |-> "AddrOf", rw |-> t, mutbl |-> m]
Deref(t) == [k |-> "Deref", rw |-> t]
Index(arr, idx) == [k |-> "Index", arr |-> arr, idx |-> idx]
SliceTail(arr, idx) == [k |-> "SliceTail", arr |-> arr, idx |-> idx]
Cast(t, ty) == [k |-> "Cast", rw |-> t, ty |-> ty]
LitZero == [k |-> "LitZero"]
Call(func, args) == [k |-> "Call", func |-> func, args |-> args]
MethodCall(method, recv, args) ==
    [k |-> "MethodCall", method |-> method, recv |-> recv, args |-> args]
PrintTy(s) == [k |-> "PrintTy", s |-> s]
TyPtr(t, m) == [k |-> "TyPtr", rw |-> t, mutbl |-> m]
TyRef(lt, t, m) == [k |-> "TyRef", lifetime |-> lt, rw |-> t, mutbl |-> m]
TySlice(t) == [k |-> "TySlice", rw |-> t]
TyCtor(name, rws) == [k |-> "TyCtor", name |-> name, rws |-> rws]
TyParams(rws) == [k |-> "TyParams", rws |-> rws]
StaticMut(m, span) == [k |-> "StaticMut", mutbl |-> m, span |-> span]

\* The span of a node that has none (a tree read back from text).
NoSpan == <<0, 0>>

\* `write!(f, "${}", i)`: the decimal text of a child index.
IndexText(i) ==
    CASE i = 0 -> "0" [] i = 1 -> "1" [] i = 2 -> "2" [] i = 3 -> "3"
      [] OTHER -> "9"

(***************************************************************************)
(* Rewrite::pretty (mod.rs:108-240).  The result is the sequence of text   *)
(* fragments written to the formatter; to_string concatenates them.         *)
(***************************************************************************)
parenthesize_if(cond, inner) ==
    IF cond THEN <<"(">> \o inner \o <<")">> ELSE inner

\* The parenthesization conditions of the operator nodes.
\* RefNeedsParens with the comparison made inclusive.
RefNeedsParens_ge(prec) == prec >= 2
RefNeedsParens(prec) == prec > 2
DerefNeedsParens(prec) == prec > 2
IndexNeedsParens(prec) == prec > 3
SliceTailNeedsParens(prec) == prec > 3
\* CastNeedsParens with the comparison made inclusive.
CastNeedsParens_ge(prec) == prec >= 1
CastNeedsParens(prec) == prec > 1

\* The precedence each operator node hands to its children.
RefChildPrec == 2
DerefChildPrec == 2
IndexArrPrec == 3
IndexIdxPrec == 0
SliceTailArrPrec == 3
SliceTailIdxPrec == 999
CastChildPrec == 1
ReceiverPrec == 0
ArgPrec == 0

RECURSIVE pretty(_, _)
RECURSIVE pretty_args(_, _)
\* The argument loop of Call and MethodCall (mod.rs:183-188, 196-201).
pretty_args(arg_rws, index) ==
    IF index > Len(arg_rws) THEN <<>>
    ELSE pretty(arg_rws[index], ArgPrec)
         \o (IF index - 1 < Len(arg_rws) - 1 THEN <<",">> ELSE <<>>)
         \o pretty_args(arg_rws, index + 1)

RECURSIVE pretty_all(_, _)
\* The child loop of TyCtor (mod.rs:225-227): no separator is written.
pretty_all(rws, index) ==
    IF index > Len(rws) THEN <<>>
    ELSE pretty(rws[index], 0) \o pretty_all(rws, index + 1)

pretty(t, prec) ==
    CASE t.k = "Identity" -> <<"$e">>
      [] t.k = "Sub" -> <<"$" \o IndexText(t.i)>>
      [] t.k = "Ref" ->
            parenthesize_if(RefNeedsParens(prec),
                <<IF t.mutbl = "Not" THEN "&" ELSE "&mut ">>
                \o pretty(t.rw, RefChildPrec))
      [] t.k = "AddrOf" ->
            <<IF t.mutbl = "Not" THEN "core::ptr::addr_of!"
                                 ELSE "core::ptr::addr_of_mut!">>
            \o <<"(">> \o pretty(t.rw, 0) \o <<")">>
      [] t.k = "Deref" ->
            parenthesize_if(DerefNeedsParens(prec),
                <<"*">> \o pretty(t.rw, DerefChildPrec))
      [] t.k = "Index" ->
            parenthesize_if(IndexNeedsParens(prec),
                pretty(t.arr, IndexArrPrec) \o <<"[">>
                \o pretty(t.idx, IndexIdxPrec) \o <<"]">>)
      [] t.k = "SliceTail" ->
            parenthesize_if(SliceTailNeedsParens(prec),
                pretty(t.arr, SliceTailArrPrec) \o <<"[">>
                \o pretty(t.idx, SliceTailIdxPrec) \o <<" ..", "]">>)
      [] t.k = "Cast" ->
            parenthesize_if(CastNeedsParens(prec),
                pretty(t.rw, CastChildPrec) \o <<" as ", t.ty>>)
      [] t.k = "LitZero" -> <<"0">>
      [] t.k = "PrintTy" -> <<t.s>>
      [] t.k = "Call" ->
            <<t.func, "(">> \o pretty_args(t.args, 1) \o <<")">>
      [] t.k = "MethodCall" ->
            pretty(t.recv, ReceiverPrec) \o <<".", t.method, "(">>
            \o pretty_args(t.args, 1) \o <<")">>
      [] t.k = "TyPtr" ->
            <<IF t.mutbl = "Not" THEN "*const " ELSE "*mut ">>
            \o pretty(t.rw, 0)
      [] t.k = "TyRef" ->
            <<IF t.mutbl = "Not" THEN "&" ELSE "&mut ">> \o pretty(t.rw, 0)
      [] t.k = "TySlice" -> <<"[">> \o pretty(t.rw, 0) \o <<"]">>
      [] t.k = "TyCtor" ->
            <<t.name \o "<">> \o pretty_all(t.rws, 1) \o <<">">>
      [] t.k = "StaticMut" ->
            <<IF t.mutbl = "Not" THEN "static (-mut) " ELSE "static (+mut) ">>
            \o <<"$s">>

\* impl Display for Rewrite (mod.rs:242-246).
Display(t) == pretty(t, 0)

RECURSIVE to_string(_)
\* ToString::to_string over the written fragments.
to_string(frags) ==
    IF frags = <<>> THEN "" ELSE Head(frags) \o to_string(Tail(frags))

(***************************************************************************)
(* The Rewrite trees Display is applied to: every tree of at most MaxSize  *)
(* nodes over the expression node kinds, and every tree of at most         *)
(* MaxSizeCore nodes over Identity/Ref/Index/Cast.                         *)
(***************************************************************************)
FuncNames == {"f"}
MethodNames == {"m"}
TypeNames == {"usize"}
SubSpans == {<<4, 6>>}

CoreKinds == {"Identity", "Ref", "Index", "Cast"}
ExprKinds == {"Identity", "Sub", "Ref", "AddrOf", "Deref", "Index",
              "SliceTail", "Cast", "LitZero", "Call", "MethodCall"}

\* The trees of exactly n nodes, given tab[i], the trees of exactly i nodes,
\* for every i < n.
Sized(tab, i) == IF i >= 1 /\ i <= Len(tab) THEN tab[i] ELSE {}

RECURSIVE SeqsOfSize(_, _, _)
\* The sequences of exactly len trees with n nodes in total.
SeqsOfSize(tab, len, n) ==
    IF len = 0 THEN (IF n = 0 THEN {<<>>} ELSE {})
    ELSE UNION {{<<a>> \o rest : a \in Sized(tab, i),
                                  rest \in SeqsOfSize(tab, len - 1, n - i)} :
                i \in 1..(n - (len - 1))}

ArgSeqs(tab, n) ==
    UNION {SeqsOfSize(tab, len, n) : len \in 0..MaxArgs}

NextSize(kinds, tab) ==
    LET n == Len(tab) + 1
        sub == Sized(tab, n - 1)
    IN
      (IF n = 1
       THEN {t \in {Identity, LitZero} : t.k \in kinds}
            \cup {Sub(0, sp) : sp \in {s \in SubSpans : "Sub" \in kinds}}
       ELSE {})
      \cup (IF "Ref" \in kinds
            THEN {Ref(t, m) : t \in sub, m \in Mutability} ELSE {})
      \cup (IF "AddrOf" \in kinds
            THEN {AddrOf(t, m) : t \in sub, m \in Mutability} ELSE {})
      \cup (IF "Deref" \in kinds THEN {Deref(t) : t \in sub} ELSE {})
      \cup (IF "Cast" \in kinds
            THEN {Cast(t, ty) : t \in sub, ty \in TypeNames} ELSE {})
      \cup (IF "Index" \in kinds
            THEN UNION {{Index(a, b) : a \in Sized(tab, i),
                                       b \in Sized(tab, n - 1 - i)} :
                        i \in 1..(n - 2)}
            ELSE {})
      \cup (IF "SliceTail" \in kinds
            THEN UNION {{SliceTail(a, b) : a \in Sized(tab, i),
                                           b \in Sized(tab, n - 1 - i)} :
                        i \in 1..(n - 2)}
            ELSE {})
      \cup (IF "Call" \in kinds
            THEN {Call(fn, args) : fn \in FuncNames, args \in ArgSeqs(tab, n - 1)}
            ELSE {})
      \cup (IF "MethodCall" \in kinds
            THEN UNION {{MethodCall(mn, r, args) :
                            mn \in MethodNames,
                            r \in Sized(tab, i),
                            args \in ArgSeqs(tab, n - 1 - i)} :
                        i \in 1..(n - 1)}
            ELSE {})

RECURSIVE TreeTable(_, _)
\* <<trees of 1 node, trees of 2 nodes, ..., trees of n nodes>>.
TreeTable(kinds, n) ==
    IF n = 0 THEN <<>>
    ELSE LET tab == TreeTable(kinds, n - 1)
         IN  Append(tab, NextSize(kinds, tab))

ExprTable == TreeTable(ExprKinds, MaxSize)
CoreTable == TreeTable(CoreKinds, MaxSizeCore)

(***************************************************************************)
(* SpecPretty: a tree is chosen, then Display renders it.                  *)
(***************************************************************************)
IdleDec ==
    /\ dec_in = None
    /\ dec_out = None
    /\ zipped = <<>>
    /\ dpc = "idle"

IdleAug ==
    /\ aug_pdg = <<>>
    /\ aug_graph_idx = 0
    /\ aug_node_idx = 0
    /\ aug_maps = <<>>
    /\ aug_call = 0
    /\ aug_locals = <<>>
    /\ aug_pc = "idle"

IdleUniq ==
    /\ ugraph = <<>>
    /\ downward = <<>>
    /\ flow_info = <<>>
    /\ u_to_view = <<>>
    /\ path_to_fields = <<>>
    /\ curidx = 0
    /\ upc = "idle"

IdleInfo ==
    /\ pdg = <<>>
    /\ graph_idx = 0
    /\ node_idx = 0
    /\ idx_maps = <<>>
    /\ ipc = "idle"

IdleApply ==
    /\ new_src = <<>>
    /\ file_idx = 0
    /\ written = {}
    /\ stderr = <<>>
    /\ apc = "idle"

IdleTy ==
    /\ prog = None
    /\ hir_rewrites = <<>>
    /\ visited = <<>>
    /\ tpc = "idle"
    /\ cursor = 0
    /\ pending = <<>>
    /\ unit_rewrites = <<>>

InitPretty ==
    /\ IdleTy
    /\ IdleApply
    /\ IdleInfo
    /\ IdleUniq
    /\ IdleAug
    /\ IdleDec
    /\ \/ \E n \in 1..MaxSize : rw \in ExprTable[n]
       \/ \E n \in 1..MaxSizeCore : rw \in CoreTable[n]
    /\ out = <<>>
    /\ ppc = "start"

\* `rw.to_string()`: Display::fmt writes pretty(rw, 0).
DisplayFmt ==
    /\ ppc = "start"
    /\ out' = Display(rw)
    /\ ppc' = "rendered"
    /\ UNCHANGED rw
    /\ UNCHANGED tyVars
    /\ UNCHANGED applyVars
    /\ UNCHANGED infoVars
    /\ UNCHANGED uniqVars
    /\ UNCHANGED augVars
    /\ UNCHANGED decVars

NextPretty == DisplayFmt

SpecPretty == InitPretty /\ [][NextPretty]_vars

(***************************************************************************)
(* Reading rendered text back with Rust's expression grammar:              *)
(*   expr    ::= unary (" as " TYPE)*                                      *)
(*   unary   ::= ("&" | "&mut " | "*") unary | postfix                     *)
(*   postfix ::= primary ("[" expr "]" | "[" expr " .." "]"                *)
(*                        | "." METHOD "(" args ")")*                      *)
(*   primary ::= "$e" | "$0" | "0" | "(" expr ")" | FUNC "(" args ")"      *)
(*             | MACRO "(" expr ")"                                        *)
(* Postfix operators bind tighter than prefix ones, which bind tighter     *)
(* than `as`; parentheses are transparent.  A parse result is              *)
(* [ok, t, rest]: the tree read and the fragments left.                    *)
(***************************************************************************)
MacroNames == {"core::ptr::addr_of!", "core::ptr::addr_of_mut!"}
ParseError == [k |-> "ParseError"]
PFail == [ok |-> FALSE, t |-> ParseError, rest |-> <<>>]
POk(t, rest) == [ok |-> TRUE, t |-> t, rest |-> rest]
From(toks, i) == SubSeq(toks, i, Len(toks))
At(toks, i) == IF i <= Len(toks) THEN toks[i] ELSE "<eof>"

RECURSIVE ParseExpr(_)
RECURSIVE ParseCastTail(_, _)
RECURSIVE ParseUnary(_)
RECURSIVE ParsePostfix(_, _)
RECURSIVE ParsePrimary(_)
RECURSIVE ParseArgs(_, _)

ParseExpr(toks) ==
    LET u == ParseUnary(toks)
    IN  IF u.ok THEN ParseCastTail(u.t, u.rest) ELSE PFail

ParseCastTail(t, toks) ==
    IF At(toks, 1) = " as " /\ At(toks, 2) \in TypeNames
    THEN ParseCastTail(Cast(t, toks[2]), From(toks, 3))
    ELSE POk(t, toks)

ParseUnary(toks) ==
    IF At(toks, 1) \in {"&", "&mut "}
    THEN LET r == ParseUnary(Tail(toks))
         IN  IF r.ok
             THEN POk(Ref(r.t, IF toks[1] = "&" THEN "Not" ELSE "Mut"), r.rest)
             ELSE PFail
    ELSE IF At(toks, 1) = "*"
    THEN LET r == ParseUnary(Tail(toks))
         IN  IF r.ok THEN POk(Deref(r.t), r.rest) ELSE PFail
    ELSE LET p == ParsePrimary(toks)
         IN  IF p.ok THEN ParsePostfix(p.t, p.rest) ELSE PFail

ParsePostfix(t, toks) ==
    IF At(toks, 1) = "["
    THEN LET e == ParseExpr(Tail(toks))
         IN  IF ~e.ok THEN PFail
             ELSE IF At(e.rest, 1) = "]"
             THEN ParsePostfix(Index(t, e.t), Tail(e.rest))
             ELSE IF At(e.rest, 1) = " .." /\ At(e.rest, 2) = "]"
             THEN ParsePostfix(SliceTail(t, e.t), From(e.rest, 3))
             ELSE PFail
    ELSE IF At(toks, 1) = "." /\ At(toks, 2) \in MethodNames /\ At(toks, 3) = "("
    THEN LET a == ParseArgs(<<>>, From(toks, 4))
         IN  IF a.ok THEN ParsePostfix(MethodCall(toks[2], t, a.t), a.rest)
             ELSE PFail
    ELSE POk(t, toks)

ParsePrimary(toks) ==
    CASE At(toks, 1) = "$e" -> POk(Identity, Tail(toks))
      [] At(toks, 1) = "$0" -> POk(Sub(0, NoSpan), Tail(toks))
      [] At(toks, 1) = "0" -> POk(LitZero, Tail(toks))
      [] At(toks, 1) = "(" ->
            LET e == ParseExpr(Tail(toks))
            IN  IF e.ok /\ At(e.rest, 1) = ")" THEN POk(e.t, Tail(e.rest))
                ELSE PFail
      [] At(toks, 1) \in FuncNames /\ At(toks, 2) = "(" ->
            LET a == ParseArgs(<<>>, From(toks, 3))
            IN  IF a.ok THEN POk(Call(toks[1], a.t), a.rest) ELSE PFail
      [] At(toks, 1) \in MacroNames /\ At(toks, 2) = "(" ->
            LET e == ParseExpr(From(toks, 3))
            IN  IF e.ok /\ At(e.rest, 1) = ")"
                THEN POk(AddrOf(e.t, IF toks[1] = "core::ptr::addr_of!"
                                     THEN "Not" ELSE "Mut"), Tail(e.rest))
                ELSE PFail
      [] OTHER -> PFail

\* The arguments up to the closing parenthesis; acc holds those read so far.
ParseArgs(acc, toks) ==
    IF At(toks, 1) = ")" THEN POk(acc, Tail(toks))
    ELSE LET e == ParseExpr(toks)
         IN  IF ~e.ok THEN PFail
             ELSE IF At(e.rest, 1) = "," THEN ParseArgs(Append(acc, e.t), Tail(e.rest))
             ELSE IF At(e.rest, 1) = ")" THEN POk(Append(acc, e.t), Tail(e.rest))
             ELSE PFail

\* The tree the whole text reads as, or ParseError.
Parse(toks) ==
    LET r == ParseExpr(toks)
    IN  IF r.ok /\ r.rest = <<>> THEN r.t ELSE ParseError

RECURSIVE Shape(_)
\* A tree without the source ranges of its Sub nodes, which no text carries.
Shape(t) ==
    CASE t.k = "Sub" -> Sub(t.i, NoSpan)
      [] t.k \in {"Ref", "AddrOf"} -> [t EXCEPT !.rw = Shape(t.rw)]
      [] t.k \in {"Deref", "Cast"} -> [t EXCEPT !.rw = Shape(t.rw)]
      [] t.k \in {"Index", "SliceTail"} ->
            [t EXCEPT !.arr = Shape(t.arr), !.idx = Shape(t.idx)]
      [] t.k = "Call" ->
            [t EXCEPT !.args = [i \in 1..Len(t.args) |-> Shape(t.args[i])]]
      [] t.k = "MethodCall" ->
            [t EXCEPT !.recv = Shape(t.recv),
                      !.args = [i \in 1..Len(t.args) |-> Shape(t.args[i])]]
      [] OTHER -> t

(***************************************************************************)
(* The parentheses of a text that the renderer added around a child: every *)
(* "(" that does not follow a function, method or macro name.              *)
(***************************************************************************)
AddedParens(toks) ==
    {i \in 1..Len(toks) :
        /\ toks[i] = "("
        /\ (i = 1 \/ toks[i - 1] \notin (FuncNames \cup MethodNames \cup MacroNames))}

RECURSIVE MatchFrom(_, _, _)
\* The position of the ")" closing the parenthesis whose inside starts at j.
MatchFrom(toks, j, depth) ==
    IF j > Len(toks) THEN j
    ELSE IF toks[j] = ")" THEN (IF depth = 0 THEN j ELSE MatchFrom(toks, j + 1, depth - 1))
    ELSE IF toks[j] = "(" THEN MatchFrom(toks, j + 1, depth + 1)
    ELSE MatchFrom(toks, j + 1, depth)

Match(toks, i) == MatchFrom(toks, i + 1, 0)

\* The text without the parenthesis pair opened at i.
WithoutPair(toks, i) ==
    SubSeq(toks, 1, i - 1) \o SubSeq(toks, i + 1, Match(toks, i) - 1)
    \o From(toks, Match(toks, i) + 1)

\* Removing the pair opened at i changes what a text that parses is read as.
Necessary(toks, i) ==
    Parse(toks) = ParseError \/ Parse(WithoutPair(toks, i)) # Parse(toks)

\* The pair opened at i wraps the whole offset operand of a `[.. ..]`.
WrapsSliceOffset(toks, i) ==
    /\ i > 1
    /\ toks[i - 1] = "["
    /\ At(toks, Match(toks, i) + 1) = " .."

(***************************************************************************)
(* The rule of parenthesization for trees over Identity/Ref/Index/Cast,    *)
(* by the position a child is in rather than by precedence numbers.        *)
(***************************************************************************)
RECURSIVE RuleText(_, _)
RuleText(t, pos) ==
    LET body ==
            CASE t.k = "Identity" -> <<"$e">>
              [] t.k = "Ref" ->
                    <<IF t.mutbl = "Not" THEN "&" ELSE "&mut ">>
                    \o RuleText(t.rw, "ref-operand")
              [] t.k = "Index" ->
                    RuleText(t.arr, "index-base") \o <<"[">>
                    \o RuleText(t.idx, "index-operand") \o <<"]">>
              [] t.k = "Cast" ->
                    RuleText(t.rw, "cast-operand") \o <<" as ", t.ty>>
        wrap == \/ pos = "index-base" /\ t.k \in {"Ref", "Cast"}
                \/ pos = "ref-operand" /\ t.k = "Cast"
    IN  IF wrap THEN <<"(">> \o body \o <<")">> ELSE body

\* The direct children of an expression node.
Children(t) ==
    CASE t.k \in {"Ref", "AddrOf", "Deref", "Cast"} -> <<t.rw>>
      [] t.k \in {"Index", "SliceTail"} -> <<t.arr, t.idx>>
      [] t.k = "Call" -> t.args
      [] t.k = "MethodCall" -> <<t.recv>> \o t.args
      [] OTHER -> <<>>

RECURSIVE OnlyKinds(_, _)
\* Every node of t is of one of the kinds.
OnlyKinds(t, kinds) ==
    /\ t.k \in kinds
    /\ \A i \in 1..Len(Children(t)) : OnlyKinds(Children(t)[i], kinds)

Id == Identity
RefN(t) == Ref(t, "Not")
CastU(t) == Cast(t, "usize")

\* C1: Display parenthesizes by precedence: the seven renderings of
\* test::rewrite_pretty_precedence, and for every tree over
\* Identity/Ref/Index/Cast exactly a Ref or Cast base of an Index and a Cast
\* under a Ref are parenthesized (never the index operand or the top node).
C1_PrettyPrecedence ==
    ppc = "rendered" =>
        /\ rw = RefN(Index(Id, Id)) => to_string(out) = "&$e[$e]"
        /\ rw = Index(RefN(Id), RefN(Id)) => to_string(out) = "(&$e)[&$e]"
        /\ rw = CastU(RefN(Id)) => to_string(out) = "&$e as usize"
        /\ rw = RefN(CastU(Id)) => to_string(out) = "&($e as usize)"
        /\ rw = CastU(Index(Id, Id)) => to_string(out) = "$e[$e] as usize"
        /\ rw = Index(CastU(Id), CastU(Id))
              => to_string(out) = "($e as usize)[$e as usize]"
        /\ rw = Index(Index(Id, Id), Id) => to_string(out) = "$e[$e][$e]"
        /\ OnlyKinds(rw, CoreKinds) => out = RuleText(rw, "top")

C1_Witness ==
    /\ ppc = "rendered"
    /\ rw = Index(CastU(Id), CastU(Id))
    /\ to_string(out) = "($e as usize)[$e as usize]"

\* C2: precedence round trip: the rendered text of every expression tree
\* reads back, under Rust's operator precedence, as the tree rendered.
C2_RoundTrip ==
    ppc = "rendered" /\ OnlyKinds(rw, ExprKinds) => Parse(out) = Shape(rw)

\* C3 as stated: every pair of parentheses the renderer adds around a child
\* is necessary, the offset operand of SliceTail included.
C3_NoRedundantParens ==
    ppc = "rendered" => \A i \in AddedParens(out) : Necessary(out, i)

\* C3 as amended: every pair of parentheses the renderer adds around a child
\* other than the offset operand of SliceTail is necessary, in every
\* rendering that parses.
C3_NoRedundantParensButSliceOffset ==
    ppc = "rendered" =>
        \A i \in AddedParens(out) :
            WrapsSliceOffset(out, i) \/ Necessary(out, i)

C3_Witness ==
    /\ ppc = "rendered"
    /\ rw = Index(Deref(Id), LitZero)
    /\ to_string(out) = "(*$e)[0]"
    /\ AddedParens(out) = {1}
    /\ Parse(out) = rw
    /\ Necessary(out, 1)

(***************************************************************************)
(*                      The type rewrite generator (ty.rs)                 *)
(***************************************************************************)

\* type_desc::Ownership and type_desc::Quantity (ty.rs:15, 325-344, 390-414).
Ownership == {"Raw", "RawMut", "Imm", "Cell", "Mut", "Rc", "Box"}
Quantity == {"Single", "Slice", "OffsetPtr"}

(***************************************************************************)
(* A resolved type with its pointer decision (LTy with perms and flags     *)
(* looked up and turned into a descriptor, ty.rs:54-63):                   *)
(*   [kind, m, name, args, ptr, origins]                                   *)
(* kind is the TyKind, m the mutability of a RawPtr or Ref, name the       *)
(* primitive or the ADT, args the child types, ptr None (PointerId::NONE)  *)
(* or TypeDesc(own, qty), origins the OriginArgs of the position.          *)
(* A labelled type (RwLTy) replaces ptr and origins by label.              *)
(***************************************************************************)
LTyOf(kind, m, name, args, ptr, origins) ==
    [kind |-> kind, m |-> m, name |-> name, args |-> args, ptr |-> ptr,
     origins |-> origins]

\* struct RewriteLabel (ty.rs:35-42).
\* The (Ownership, Quantity) pair of RewriteLabel::ty_desc (ty.rs:37).
TypeDesc(own, qty) == [own |-> own, qty |-> qty]

RewriteLabel(ty_desc, dhr, lifetime) ==
    [ty_desc |-> ty_desc, descendant_has_rewrite |-> dhr, lifetime |-> lifetime]

RwLTyOf(lty, args, label) ==
    [kind |-> lty.kind, m |-> lty.m, name |-> lty.name, args |-> args,
     label |-> label]

\* OriginArg / OriginParam: [kind |-> "Actual" | "Hypothetical", id |-> n].
Origin(kind, id) == [kind |-> kind, id |-> id]

\* `format!("{:?}", origin)`: the text of a lifetime.
OriginText(o) ==
    (IF o.kind = "Hypothetical" THEN "'h" ELSE "'a") \o IndexText(o.id)

\* AdtMetadataTable::table.get(did): the ADT's lifetime parameters, or None.
AdtGet(table, did) ==
    IF did \in DOMAIN table THEN table[did] ELSE None

\* child_has_lifetime_rws that looks at the pointer lifetime only.
child_has_lifetime_rws_ptrOnly(child, table) ==
    /\ child.label.lifetime # None
    /\ child.label.lifetime.kind = "Hypothetical"
\* child_has_lifetime_rws (ty.rs:65-84).
child_has_lifetime_rws(child, table) ==
    LET has_pointer_lifetime ==
            /\ child.label.lifetime # None
            /\ child.label.lifetime.kind = "Hypothetical"
        has_adt_lifetime ==
            /\ child.kind = "Adt"
            /\ AdtGet(table, child.name) # None
            /\ \E i \in 1..Len(AdtGet(table, child.name).lifetime_params) :
                   AdtGet(table, child.name).lifetime_params[i].kind
                       = "Hypothetical"
    IN  has_adt_lifetime \/ has_pointer_lifetime

\* create_rewrite_label (ty.rs:46-99).
create_rewrite_label(pointer_lty, args, lifetime, table) ==
    LET ty_desc == IF pointer_lty.ptr = None THEN None ELSE pointer_lty.ptr
        descendant_has_rewrite ==
            \E i \in 1..Len(args) :
                \/ args[i].label.ty_desc # None
                \/ args[i].label.descendant_has_rewrite
                \/ child_has_lifetime_rws(args[i], table)
    IN  RewriteLabel(ty_desc, descendant_has_rewrite, lifetime)

RECURSIVE relabel_rewrites(_, _)
\* relabel_rewrites (ty.rs:101-115): relabel_with_args, children first.
relabel_rewrites(lty, table) ==
    LET args == [i \in 1..Len(lty.args) |-> relabel_rewrites(lty.args[i], table)]
    IN  RwLTyOf(lty, args, create_rewrite_label(lty, args, None, table))

RECURSIVE zip_field_labels(_, _)
\* The zip_labels_with closure of visit_item (ty.rs:520-543): the lifetime
\* of a position with exactly one OriginArg, no lifetime otherwise.
zip_field_labels(lty, table) ==
    LET args == [i \in 1..Len(lty.args) |-> zip_field_labels(lty.args[i], table)]
        lifetime_rw == IF Len(lty.origins) = 1 THEN lty.origins[1] ELSE None
    IN  RwLTyOf(lty, args, create_rewrite_label(lty, args, lifetime_rw, table))

(***************************************************************************)
(* A written type (hir::Ty): [kind, m, res, has_args, args, span].         *)
(* kind is the hir::TyKind ("Path", "Ptr", "Rptr", "Tup", "Slice", "Array",*)
(* "Infer" for `_`, "BareFn"), m the                                       *)
(* written mutability, res what a path resolves to ("u8" for the primitive,*)
(* "TyAlias" for an alias, the ADT's name otherwise), has_args whether the *)
(* last path segment has generic arguments, args the written child types,  *)
(* span the source range <<lo, hi>>.                                       *)
(***************************************************************************)
HirTy(kind, m, res, has_args, args, span) ==
    [kind |-> kind, m |-> m, res |-> res, has_args |-> has_args,
     args |-> args, span |-> span]

\* The names of hir::PrimTy values.
PrimNames == {"bool", "char", "i32", "u8", "f64", "str"}

\* Option::Some.
Some(v) == [k |-> "Some", v |-> v]

\* do_prim (ty.rs:155-171).
do_prim(expect_prim, hir_ty) ==
    IF hir_ty.kind # "Path" THEN None
    ELSE IF hir_ty.res \notin PrimNames THEN None
    ELSE IF hir_ty.res # expect_prim THEN None
    ELSE Some(<<>>)

\* extract_type_arg_tys that takes a path without generic arguments as a
\* path with an empty argument list.
extract_type_arg_tys_empty(hir_ty) ==
    IF hir_ty.kind = "Path" THEN Some(hir_ty.args) ELSE None
\* extract_type_arg_tys (ty.rs:117-143).
extract_type_arg_tys(hir_ty) ==
    IF hir_ty.kind = "Path" /\ hir_ty.has_args THEN Some(hir_ty.args) ELSE None

\* The hir::PrimTy a primitive ty::TyKind is matched against (ty.rs:175-180).
PrimKinds == {"Bool", "Char", "Int", "Uint", "Float", "Str"}
expect_prim_of(ty) ==
    CASE ty.kind = "Bool" -> "bool"
      [] ty.kind = "Char" -> "char"
      [] ty.kind = "Str" -> "str"
      [] ty.kind \in {"Int", "Uint", "Float"} -> ty.name

\* deconstruct_hir_ty with the tuple arm returning every written element.
deconstruct_hir_ty_anyArity(ty, hir_ty) ==
    CASE ty.kind \in PrimKinds -> do_prim(expect_prim_of(ty), hir_ty)
      [] ty.kind = "Array" /\ hir_ty.kind = "Array" -> Some(<<hir_ty.args[1]>>)
      [] ty.kind = "Slice" /\ hir_ty.kind = "Slice" -> Some(<<hir_ty.args[1]>>)
      [] ty.kind = "RawPtr" /\ hir_ty.kind = "Ptr" ->
            IF hir_ty.m = ty.m THEN Some(<<hir_ty.args[1]>>) ELSE None
      [] ty.kind = "Ref" /\ hir_ty.kind = "Rptr" ->
            IF hir_ty.m = ty.m THEN Some(<<hir_ty.args[1]>>) ELSE None
      [] ty.kind = "Tuple" /\ hir_ty.kind = "Tup" -> Some(hir_ty.args)
      [] ty.kind = "Adt" /\ hir_ty.kind = "Path" ->
            LET type_args == extract_type_arg_tys(hir_ty)
            IN  IF type_args # None /\ Len(type_args.v) <= Len(ty.args)
                THEN type_args ELSE None
      [] OTHER -> None
\* deconstruct_hir_ty (ty.rs:149-225): the written children, or None.
deconstruct_hir_ty(ty, hir_ty) ==
    CASE ty.kind \in PrimKinds -> do_prim(expect_prim_of(ty), hir_ty)
      [] ty.kind = "Array" /\ hir_ty.kind = "Array" -> Some(<<hir_ty.args[1]>>)
      [] ty.kind = "Slice" /\ hir_ty.kind = "Slice" -> Some(<<hir_ty.args[1]>>)
      [] ty.kind = "RawPtr" /\ hir_ty.kind = "Ptr" ->
            IF hir_ty.m = ty.m THEN Some(<<hir_ty.args[1]>>) ELSE None
      [] ty.kind = "Ref" /\ hir_ty.kind = "Rptr" ->
            IF hir_ty.m = ty.m THEN Some(<<hir_ty.args[1]>>) ELSE None
      [] ty.kind = "Tuple" /\ hir_ty.kind = "Tup" ->
            IF Len(ty.args) = Len(hir_ty.args) THEN Some(hir_ty.args) ELSE None
      [] ty.kind = "Adt" /\ hir_ty.kind = "Path" ->
            LET type_args == extract_type_arg_tys(hir_ty)
            IN  IF type_args # None /\ Len(type_args.v) <= Len(ty.args)
                THEN type_args ELSE None
      [] OTHER -> None

(***************************************************************************)
(* mk_rewritten_ty (ty.rs:310-348).  A ty::Ty is [kind, m, name, args];    *)
(* Panicked stands for a call that did not return.                         *)
(***************************************************************************)
Panicked == [k |-> "Panicked"]
Ty(kind, m, name, args) == [kind |-> kind, m |-> m, name |-> name, args |-> args]

\* mk_cell (ty.rs:276-307).
mk_cell(ty) == Ty("Adt", "Not", "core::cell::Cell", <<ty>>)

\* mk_qty_ty with OffsetPtr left as the single pointee.
mk_qty_ty_noOffset(qty, ty) ==
    CASE qty = "Single" -> ty
      [] qty = "Slice" -> Ty("Slice", "Not", "", <<ty>>)
      [] qty = "OffsetPtr" -> ty
\* The quantity match of mk_rewritten_ty (ty.rs:329-334).
mk_qty_ty(qty, ty) ==
    CASE qty = "Single" -> ty
      [] qty = "Slice" -> Ty("Slice", "Not", "", <<ty>>)
      [] qty = "OffsetPtr" -> Ty("Slice", "Not", "", <<ty>>)

\* mk_own_ty with Mut built as a shared reference.
mk_own_ty_imm(own, ty) ==
    CASE own \in {"Raw", "RawMut"} -> Ty("RawPtr", "Not", "", <<ty>>)
      [] own \in {"Imm", "Cell", "Mut"} -> Ty("Ref", "Not", "", <<ty>>)
      [] own = "Rc" -> Panicked
      [] own = "Box" -> Ty("Adt", "Not", "Box", <<ty>>)
\* mk_own_ty with Rc built as an Rc<T> instead of todo!().
mk_own_ty_rc(own, ty) ==
    CASE own = "Raw" -> Ty("RawPtr", "Not", "", <<ty>>)
      [] own = "RawMut" -> Ty("RawPtr", "Mut", "", <<ty>>)
      [] own \in {"Imm", "Cell"} -> Ty("Ref", "Not", "", <<ty>>)
      [] own = "Mut" -> Ty("Ref", "Mut", "", <<ty>>)
      [] own = "Rc" -> Ty("Adt", "Not", "Rc", <<ty>>)
      [] own = "Box" -> Ty("Adt", "Not", "Box", <<ty>>)
\* The ownership match of mk_rewritten_ty (ty.rs:336-344).
mk_own_ty(own, ty) ==
    CASE own = "Raw" -> Ty("RawPtr", "Not", "", <<ty>>)
      [] own = "RawMut" -> Ty("RawPtr", "Mut", "", <<ty>>)
      [] own = "Imm" -> Ty("Ref", "Not", "", <<ty>>)
      [] own = "Cell" -> Ty("Ref", "Not", "", <<ty>>)
      [] own = "Mut" -> Ty("Ref", "Mut", "", <<ty>>)
      [] own = "Rc" -> Panicked
      [] own = "Box" -> Ty("Adt", "Not", "Box", <<ty>>)

\* The closure handed to rewrite_unlabeled (ty.rs:315-347): ty is the node
\* rebuilt over its rewritten children args.
rewrite_label_fn(ty, args, label) ==
    IF label.ty_desc = None THEN ty
    ELSE IF Len(args) # 1 THEN Panicked
    ELSE LET own == label.ty_desc.own
             qty == label.ty_desc.qty
             t1 == IF own = "Cell" THEN mk_cell(args[1]) ELSE args[1]
         IN  mk_own_ty(own, mk_qty_ty(qty, t1))

RECURSIVE mk_rewritten_ty(_)
\* LabeledTyCtxt::rewrite_unlabeled: children first, then the node rebuilt
\* over the rewritten children and handed to the closure.
mk_rewritten_ty(rw_lty) ==
    LET args == [i \in 1..Len(rw_lty.args) |-> mk_rewritten_ty(rw_lty.args[i])]
    IN  IF \E i \in 1..Len(args) : args[i] = Panicked THEN Panicked
        ELSE rewrite_label_fn(Ty(rw_lty.kind, rw_lty.m, rw_lty.name, args),
                              args, rw_lty.label)

RECURSIVE unlabeled(_)
\* The ty::Ty a labelled type was built from.
unlabeled(rw_lty) ==
    Ty(rw_lty.kind, rw_lty.m, rw_lty.name,
       [i \in 1..Len(rw_lty.args) |-> unlabeled(rw_lty.args[i])])

RECURSIVE print_ty(_)
RECURSIVE print_tys(_, _)
print_tys(tys, i) ==
    IF i > Len(tys) THEN ""
    ELSE print_ty(tys[i]) \o (IF i < Len(tys) THEN ", " ELSE "")
         \o print_tys(tys, i + 1)
\* `ty.print(FmtPrinter)` (ty.rs:378-379): the type as Rust text.
print_ty(ty) ==
    CASE ty.kind = "Uint" -> ty.name
      [] ty.kind = "RawPtr" ->
            (IF ty.m = "Mut" THEN "*mut " ELSE "*const ") \o print_ty(ty.args[1])
      [] ty.kind = "Ref" ->
            (IF ty.m = "Mut" THEN "&mut " ELSE "&") \o print_ty(ty.args[1])
      [] ty.kind = "Slice" -> "[" \o print_ty(ty.args[1]) \o "]"
      [] ty.kind = "Tuple" ->
            "(" \o print_tys(ty.args, 1)
            \o (IF Len(ty.args) = 1 THEN ",)" ELSE ")")
      [] ty.kind = "Adt" ->
            IF ty.args = <<>> THEN ty.name
            ELSE ty.name \o "<" \o print_tys(ty.args, 1) \o ">"

(***************************************************************************)
(* HirTyVisitor::handle_ty (ty.rs:361-443).  The result is                 *)
(* [rws, calls, panic]: the edits pushed to hir_rewrites in order, the     *)
(* handle_ty calls started in order (the node pair each was given and      *)
(* whether it returned), and whether the call panicked instead of          *)
(* returning.  The edits pushed before a panic stay pushed.                *)
(***************************************************************************)
Edit(span, t) == [span |-> span, rw |-> t]
CallOf(rw_lty, hir_ty, returned) ==
    [lty |-> rw_lty, hir |-> hir_ty, returned |-> returned]
Returned(rws, calls) == [rws |-> rws, calls |-> calls, panic |-> FALSE]
Panics(calls) == [rws |-> <<>>, calls |-> calls, panic |-> TRUE]

\* enum LifetimeName, as built at ty.rs:402-405.
Elided == [k |-> "Elided"]
Explicit(text) == [k |-> "Explicit", name |-> text]

\* NoRewritesHere with the descendant flag read the other way round.
NoRewritesHere_keep(rw_lty) ==
    /\ rw_lty.kind # "Adt"
    /\ rw_lty.label.ty_desc = None
    /\ rw_lty.label.descendant_has_rewrite
\* The pruning condition (ty.rs:362-364).
NoRewritesHere(rw_lty) ==
    /\ rw_lty.kind # "Adt"
    /\ rw_lty.label.ty_desc = None
    /\ ~rw_lty.label.descendant_has_rewrite

\* The fallback edit (ty.rs:377-380), or Panicked.
FallbackEdit(rw_lty, hir_ty) ==
    LET ty == mk_rewritten_ty(rw_lty)
    IN  IF ty = Panicked THEN Panicked
        ELSE Edit(hir_ty.span, PrintTy(print_ty(ty)))

\* CellWrap without the cell.
CellWrap_never(own, t) == t
\* The cell wrap (ty.rs:390-392).
CellWrap(own, t) ==
    IF own = "Cell" THEN TyCtor("core::cell::Cell", <<t>>) ELSE t

\* QtyWrap with OffsetPtr left as a single pointee.
QtyWrap_noOffset(qty, t) ==
    CASE qty = "Single" -> t
      [] qty = "Slice" -> TySlice(t)
      [] qty = "OffsetPtr" -> t
\* The quantity match (ty.rs:394-400).
QtyWrap(qty, t) ==
    CASE qty = "Single" -> t
      [] qty = "Slice" -> TySlice(t)
      [] qty = "OffsetPtr" -> TySlice(t)

\* The lifetime of the reference (ty.rs:402-405).
LifetimeType(label) ==
    IF label.lifetime # None THEN Explicit(OriginText(label.lifetime))
    ELSE Elided

\* OwnWrap with Mut built as a shared reference.
OwnWrap_shared(own, lifetime_type, t) ==
    CASE own = "Raw" -> TyPtr(t, "Not")
      [] own = "RawMut" -> TyPtr(t, "Mut")
      [] own \in {"Imm", "Cell", "Mut"} -> TyRef(lifetime_type, t, "Not")
      [] own \in {"Rc", "Box"} -> Panicked
\* The ownership match (ty.rs:406-414), or Panicked for todo!().
OwnWrap(own, lifetime_type, t) ==
    CASE own = "Raw" -> TyPtr(t, "Not")
      [] own = "RawMut" -> TyPtr(t, "Mut")
      [] own = "Imm" -> TyRef(lifetime_type, t, "Not")
      [] own = "Cell" -> TyRef(lifetime_type, t, "Not")
      [] own = "Mut" -> TyRef(lifetime_type, t, "Mut")
      [] own = "Rc" -> Panicked
      [] own = "Box" -> Panicked

\* PointerEdit keyed by the pointee's range.
PointerEdit_atPointee(rw_lty, hir_ty, hir_args) ==
    LET own == rw_lty.label.ty_desc.own
        qty == rw_lty.label.ty_desc.qty
        t == OwnWrap(own, LifetimeType(rw_lty.label),
                     QtyWrap(qty, CellWrap(own, Sub(0, hir_args[1].span))))
    IN  IF t = Panicked THEN Panicked ELSE Edit(hir_args[1].span, t)
\* The edit of a node that carries a pointer decision (ty.rs:385-417).
PointerEdit(rw_lty, hir_ty, hir_args) ==
    LET own == rw_lty.label.ty_desc.own
        qty == rw_lty.label.ty_desc.qty
        t == OwnWrap(own, LifetimeType(rw_lty.label),
                     QtyWrap(qty, CellWrap(own, Sub(0, hir_args[1].span))))
    IN  IF t = Panicked THEN Panicked ELSE Edit(hir_ty.span, t)

\* The TyCtor edit of an ADT node found in the metadata table (ty.rs:419-435).
\* `{p:?}` of a type argument is its printed type.
AdtEdit(rw_lty, hir_ty, table) ==
    LET params == AdtGet(table, rw_lty.name).lifetime_params
        lifetime_names == [i \in 1..Len(params) |-> PrintTy(OriginText(params[i]))]
        other_param_names ==
            [i \in 1..Len(rw_lty.args) |->
                PrintTy(print_ty(unlabeled(rw_lty.args[i])))]
    IN  Edit(hir_ty.span, TyCtor(rw_lty.name, lifetime_names \o other_param_names))

Min(a, b) == IF a < b THEN a ELSE b

RECURSIVE handle_ty(_, _, _)
RECURSIVE handle_args(_, _, _, _)
\* The loop over the zipped children (ty.rs:438-441).
handle_args(rw_args, hir_args, i, table) ==
    IF i > Min(Len(rw_args), Len(hir_args)) THEN Returned(<<>>, <<>>)
    ELSE LET r == handle_ty(rw_args[i], hir_args[i], table)
         IN  IF r.panic THEN r
             ELSE LET rest == handle_args(rw_args, hir_args, i + 1, table)
                  IN  [rws |-> r.rws \o rest.rws, calls |-> r.calls \o rest.calls,
                       panic |-> rest.panic]

handle_ty(rw_lty, hir_ty, table) ==
    LET deconstructed == deconstruct_hir_ty(rw_lty, hir_ty)
        hir_args == deconstructed.v
        body ==
          IF NoRewritesHere(rw_lty) THEN Returned(<<>>, <<>>)
          ELSE IF deconstructed = None
          THEN IF FallbackEdit(rw_lty, hir_ty) = Panicked THEN Panics(<<>>)
               ELSE Returned(<<FallbackEdit(rw_lty, hir_ty)>>, <<>>)
          ELSE IF rw_lty.label.ty_desc # None /\ Len(hir_args) # 1
          THEN Panics(<<>>)
          ELSE IF rw_lty.label.ty_desc # None
                  /\ PointerEdit(rw_lty, hir_ty, hir_args) = Panicked
          THEN Panics(<<>>)
          ELSE
            LET e1 == IF rw_lty.label.ty_desc # None
                      THEN <<PointerEdit(rw_lty, hir_ty, hir_args)>> ELSE <<>>
                e2 == IF rw_lty.kind = "Adt" /\ AdtGet(table, rw_lty.name) # None
                      THEN <<AdtEdit(rw_lty, hir_ty, table)>> ELSE <<>>
                sub == IF rw_lty.label.descendant_has_rewrite
                       THEN handle_args(rw_lty.args, hir_args, 1, table)
                       ELSE Returned(<<>>, <<>>)
            IN  [rws |-> e1 \o e2 \o sub.rws, calls |-> sub.calls,
                 panic |-> sub.panic]
    IN  [rws |-> body.rws,
         calls |-> <<CallOf(rw_lty, hir_ty, ~body.panic)>> \o body.calls,
         panic |-> body.panic]

(***************************************************************************)
(* visit_item on a struct (ty.rs:453-550).  A struct declaration is        *)
(* [did, params, generics_span, fields]: params the declared generic       *)
(* parameters [kind |-> "Lifetime" | "Type", name], fields the pairs       *)
(* [lty, hir] of each field's resolved and written type.  The result has   *)
(* the shape of handle_ty's.                                               *)
(***************************************************************************)
original_lifetime_param_count(params) ==
    Cardinality({i \in 1..Len(params) : params[i].kind = "Lifetime"})

SelectKind(params, kind) == SelectSeq(params, LAMBDA gp : gp.kind = kind)

\* new_substs with the non-lifetime parameters first.
new_substs_otherFirst(params, updated) ==
    LET n == original_lifetime_param_count(params)
        others == SelectKind(params, "Type")
    IN  IF Len(updated) < n THEN Panicked
        ELSE TyParams([i \in 1..Len(others) |-> PrintTy(others[i].name)]
                      \o [i \in 1..Len(updated) |-> PrintTy(OriginText(updated[i]))])
\* new_substs (ty.rs:470-503): the declared lifetimes take the updated
\* lifetimes in order (`expect` panics when they run out), the remaining
\* updated lifetimes are new, the other parameters keep their names.
new_substs(params, updated) ==
    LET n == original_lifetime_param_count(params)
        others == SelectKind(params, "Type")
    IN  IF Len(updated) < n THEN Panicked
        ELSE LET updated_lifetimes ==
                     [i \in 1..n |-> PrintTy(OriginText(updated[i]))]
                 new_lifetimes ==
                     [i \in 1..(Len(updated) - n) |->
                         PrintTy(OriginText(updated[n + i]))]
                 other_params ==
                     [i \in 1..Len(others) |-> PrintTy(others[i].name)]
             IN  TyParams(updated_lifetimes \o new_lifetimes \o other_params)

RECURSIVE handle_fields(_, _, _)
\* The loop over the fields (ty.rs:509-546).
handle_fields(fields, i, table) ==
    IF i > Len(fields) THEN Returned(<<>>, <<>>)
    ELSE LET r == handle_ty(zip_field_labels(fields[i].lty, table),
                            fields[i].hir, table)
         IN  IF r.panic THEN r
             ELSE LET rest == handle_fields(fields, i + 1, table)
                  IN  [rws |-> r.rws \o rest.rws, calls |-> r.calls \o rest.calls,
                       panic |-> rest.panic]

\* GenericsDiffer that needs more than one lifetime beyond the declared ones.
GenericsDiffer_gt(params, updated) ==
    Len(updated) > original_lifetime_param_count(params) + 1
\* The condition of the parameter-list edit (ty.rs:469).
GenericsDiffer(params, updated) ==
    Len(updated) # original_lifetime_param_count(params)

visit_item(item, table) ==
    LET updated_lifetime_params == table[item.did].lifetime_params
        differ == GenericsDiffer(item.params, updated_lifetime_params)
        substs == new_substs(item.params, updated_lifetime_params)
    IN  IF differ /\ substs = Panicked THEN Panics(<<>>)
        ELSE LET e == IF differ
                      THEN <<Edit(item.generics_span, substs)>>
                      ELSE <<>>
                 f == handle_fields(item.fields, 1, table)
             IN  [rws |-> e \o f.rws, calls |-> f.calls, panic |-> f.panic]

(***************************************************************************)
(* The programs gen_ty_rewrites runs on.                                   *)
(***************************************************************************)
AllDesc == {TypeDesc(own, qty) : own \in Ownership, qty \in Quantity}
FewDesc ==
    {TypeDesc("Mut", "Single"), TypeDesc("Cell", "Slice"),
     TypeDesc("Rc", "OffsetPtr")}

U8 == LTyOf("Uint", "Not", "u8", <<>>, None, <<>>)
AdtS == LTyOf("Adt", "Not", "S", <<>>, None, <<>>)
PtrTo(kind, m, t, ptr) == LTyOf(kind, m, "", <<t>>, ptr, <<>>)

\* The resolved types of exactly Len(tab) + 1 nodes over the few decisions.
NextTys(tab) ==
    LET n == Len(tab) + 1
        sub == Sized(tab, n - 1)
    IN  (IF n = 1 THEN {U8, AdtS} ELSE {})
        \cup {PtrTo("RawPtr", m, t, ptr) :
                 m \in Mutability, t \in sub, ptr \in FewDesc \cup {None}}
        \cup {LTyOf("Slice", "Not", "", <<t>>, None, <<>>) : t \in sub}
        \cup {LTyOf("Adt", "Not", "G", <<t>>, None, <<>>) : t \in sub}
        \cup UNION {{LTyOf("Tuple", "Not", "", <<a, b>>, None, <<>>) :
                        a \in Sized(tab, i), b \in Sized(tab, n - 1 - i)} :
                    i \in 1..(n - 2)}

RECURSIVE TyTable(_)
TyTable(n) ==
    IF n = 0 THEN <<>>
    ELSE LET tab == TyTable(n - 1) IN Append(tab, NextTys(tab))

\* The resolved types of up to MaxTyNodes nodes, by number of nodes.
SmallResolvedTys == TyTable(MaxTyNodes)

\* One pointer or reference to a leaf, under every decision.
OnePtrTys ==
    {PtrTo(kind, m, t, ptr) :
        kind \in {"RawPtr", "Ref"}, m \in Mutability, t \in {U8, AdtS},
        ptr \in AllDesc \cup {None}}

\* The text width of the fixed part before the first child of a written type.
PrefixWidth(lty) ==
    CASE lty.kind = "RawPtr" -> (IF lty.m = "Mut" THEN 5 ELSE 7)
      [] lty.kind = "Ref" -> (IF lty.m = "Mut" THEN 5 ELSE 1)
      [] lty.kind = "Adt" -> 2
      [] OTHER -> 1

RECURSIVE WrittenAt(_, _)
\* The ways the type can be written at offset lo: as an alias name, or by
\* its own syntax over the written forms of its children.
WrittenAt(lty, lo) ==
    {HirTy("Path", "Not", "TyAlias", FALSE, <<>>, <<lo, lo + 3>>)}
    \cup
    CASE lty.kind = "Uint" ->
            {HirTy("Path", "Not", lty.name, FALSE, <<>>, <<lo, lo + 2>>)}
      [] lty.kind = "Adt" /\ lty.args = <<>> ->
            {HirTy("Path", "Not", lty.name, FALSE, <<>>, <<lo, lo + 1>>)}
      [] lty.kind = "Adt" /\ lty.args # <<>> ->
            {HirTy("Path", "Not", lty.name, TRUE, <<c>>, <<lo, c.span[2] + 1>>) :
                c \in WrittenAt(lty.args[1], lo + PrefixWidth(lty))}
      [] lty.kind = "RawPtr" ->
            {HirTy("Ptr", lty.m, "", FALSE, <<c>>, <<lo, c.span[2]>>) :
                c \in WrittenAt(lty.args[1], lo + PrefixWidth(lty))}
      [] lty.kind = "Ref" ->
            {HirTy("Rptr", lty.m, "", FALSE, <<c>>, <<lo, c.span[2]>>) :
                c \in WrittenAt(lty.args[1], lo + PrefixWidth(lty))}
      [] lty.kind = "Slice" ->
            {HirTy("Slice", "Not", "", FALSE, <<c>>, <<lo, c.span[2] + 1>>) :
                c \in WrittenAt(lty.args[1], lo + PrefixWidth(lty))}
      [] lty.kind = "Tuple" ->
            UNION {{HirTy("Tup", "Not", "", FALSE, <<a, b>>, <<lo, b.span[2] + 1>>) :
                       b \in WrittenAt(lty.args[2], a.span[2] + 2)} :
                   a \in WrittenAt(lty.args[1], lo + PrefixWidth(lty))}

Annot(lty, hir) == [lty |-> lty, hir |-> hir]
AnnotsAt(ltys, lo) == UNION {{Annot(t, h) : h \in WrittenAt(t, lo)} : t \in ltys}

\* The struct declarations behind the ADTs S and G and their metadata.
Param(kind, name) == [kind |-> kind, name |-> name]
Struct(did, params, span, fields) ==
    [did |-> did, params |-> params, generics_span |-> span, fields |-> fields]
Meta(lifetime_params) == [lifetime_params |-> lifetime_params]

PlainStructs ==
    <<Struct("S", <<>>, <<101, 101>>, <<>>),
      Struct("G", <<Param("Type", "T")>>, <<151, 154>>, <<>>)>>
PlainTable == [did \in {"S", "G"} |-> Meta(<<>>)]
HypTable ==
    [did \in {"S", "G"} |->
        IF did = "S" THEN Meta(<<Origin("Hypothetical", 0)>>) ELSE Meta(<<>>)]

\* A function and its crate: the annotated inputs of lty_sig and the written
\* inputs of hir_sig.decl (ty.rs:599-616), the output, the locals of the
\* body, the items and the ADT metadata.
Signature(lty_sig_inputs, hir_inputs, output, locals, structs, table) ==
    [lty_sig_inputs |-> lty_sig_inputs, hir_inputs |-> hir_inputs,
     output |-> output, locals |-> locals, structs |-> structs, table |-> table]

\* The program whose signature pairs each annotated input with its written
\* type.
Program(inputs, output, locals, structs, table) ==
    Signature([i \in 1..Len(inputs) |-> inputs[i].lty],
              [i \in 1..Len(inputs) |-> inputs[i].hir],
              output, locals, structs, table)

\* `lty_sig.inputs.iter().zip(hir_sig.decl.inputs.iter())` (ty.rs:617).
ZipInputs(p) ==
    [i \in 1..Min(Len(p.lty_sig_inputs), Len(p.hir_inputs)) |->
        Annot(p.lty_sig_inputs[i], p.hir_inputs[i])]

\* prog is a function of one parameter of a type in ltys, written from
\* offset 10, with the structs S and G.
OneParamProgram(ltys) ==
    \E t \in ltys : \E h \in WrittenAt(t, 10) :
        \E table \in {PlainTable, HypTable} :
            prog = Program(<<Annot(t, h)>>, None, <<>>, PlainStructs, table)

\* The small annotations of the functions of several parameters.
SmallTys ==
    {U8, PtrTo("RawPtr", "Mut", U8, TypeDesc("Mut", "Slice")),
     PtrTo("RawPtr", "Not", U8, None)}

RECURSIVE InputSeqs(_, _)
\* The parameter lists of exactly n small annotations, laid out from lo.
InputSeqs(n, lo) ==
    IF n = 0 THEN {<<>>}
    ELSE UNION {{<<a>> \o rest : rest \in InputSeqs(n - 1, a.hir.span[2] + 4)} :
                a \in AnnotsAt(SmallTys, lo)}

Local(annotated, in_mir, a) ==
    [annotated |-> annotated, in_mir |-> in_mir, lty |-> a.lty, hir |-> a.hir]

\* The return types: none, or a pointer decided (Imm, Single).
Outputs ==
    {None} \cup AnnotsAt({PtrTo("RawPtr", "Mut", U8, TypeDesc("Imm", "Single"))}, 60)

\* The locals: none, or one `let` of a pointer decided (Cell, Single), with
\* or without an annotation and a MIR local at its pattern's span.
Locals ==
    {<<>>}
    \cup {<<Local(an, im, a)>> :
             an \in BOOLEAN, im \in BOOLEAN,
             a \in AnnotsAt({PtrTo("RawPtr", "Mut", U8, TypeDesc("Cell", "Single"))}, 80)}

\* prog is a function of up to MaxParams parameters, a return type and a
\* local.
SignatureProgram ==
    \E n \in 0..MaxParams : \E ins \in InputSeqs(n, 10) :
        \E o \in Outputs : \E ls \in Locals :
            prog = Program(ins, o, ls, <<>>, PlainTable)

RECURSIVE Miswritten(_)
\* The written type with one node written against its resolved type: a
\* pointer or reference of the other mutability, a tuple with its last
\* element missing or written twice, a slice written as an array.
Miswritten(h) ==
    (CASE h.kind \in {"Ptr", "Rptr"} ->
             {[h EXCEPT !.m = IF h.m = "Mut" THEN "Not" ELSE "Mut"]}
       [] h.kind = "Tup" ->
             {[h EXCEPT !.args = SubSeq(h.args, 1, Len(h.args) - 1)],
              [h EXCEPT !.args = Append(h.args, h.args[Len(h.args)])]}
       [] h.kind = "Slice" -> {[h EXCEPT !.kind = "Array"]}
       [] OTHER -> {})
    \cup UNION {{[h EXCEPT !.args[i] = c] : c \in Miswritten(h.args[i])} :
                i \in 1..Len(h.args)}

\* The resolved types of the miswritten parameters.
MiswrittenTys ==
    LET p == PtrTo("RawPtr", "Mut", U8, TypeDesc("Mut", "Single"))
        q == PtrTo("Ref", "Not", U8, TypeDesc("Cell", "Slice"))
    IN  {p, q, PtrTo("RawPtr", "Not", p, TypeDesc("Imm", "Single")),
         PtrTo("RawPtr", "Not", p, None),
         LTyOf("Tuple", "Not", "", <<p, q>>, None, <<>>),
         LTyOf("Slice", "Not", "", <<p>>, None, <<>>)}

\* prog is a function of two parameters: the first is written with one
\* node against its resolved type, the second, decided (Mut, Slice), is
\* written as resolved.
MiswrittenProgram ==
    \E t \in MiswrittenTys : \E h \in WrittenAt(t, 10) : \E h2 \in Miswritten(h) :
        \E a \in AnnotsAt({PtrTo("RawPtr", "Mut", U8, TypeDesc("Mut", "Slice"))}, 60) :
            prog = Program(<<Annot(t, h2), a>>, None, <<>>, <<>>, PlainTable)

\* prog is a function whose lty_sig or whose written signature lacks the
\* last input of the other.
MismatchedSignature ==
    \E n \in 1..MaxParams : \E ins \in InputSeqs(n, 10) :
        \E short \in {"lty_sig", "hir_sig"} :
            LET ltys == [i \in 1..n |-> ins[i].lty]
                hirs == [i \in 1..n |-> ins[i].hir]
            IN  prog = Signature(
                    IF short = "lty_sig" THEN SubSeq(ltys, 1, n - 1) ELSE ltys,
                    IF short = "hir_sig" THEN SubSeq(hirs, 1, n - 1) ELSE hirs,
                    None, <<>>, <<>>, PlainTable)

\* The annotations that name F, an ADT of another crate with no entry in
\* the metadata table: alone, with a type argument, in a tuple, and over a
\* decided pointer.
ForeignTys ==
    LET f == LTyOf("Adt", "Not", "F", <<U8>>, None, <<>>)
    IN  {f, LTyOf("Adt", "Not", "F", <<>>, None, <<>>),
         LTyOf("Tuple", "Not", "", <<f, U8>>, None, <<>>),
         LTyOf("Adt", "Not", "F",
               <<PtrTo("RawPtr", "Mut", U8, TypeDesc("Mut", "Single"))>>, None, <<>>)}

\* prog is a function of one parameter whose type names F.
ForeignProgram ==
    \E t \in ForeignTys : \E h \in WrittenAt(t, 10) :
        prog = Program(<<Annot(t, h)>>, None, <<>>, PlainStructs, PlainTable)

\* A function of the unit: its signature and locals.
Fn(inputs, output, locals) ==
    [lty_sig_inputs |-> [i \in 1..Len(inputs) |-> inputs[i].lty],
     hir_inputs |-> [i \in 1..Len(inputs) |-> inputs[i].hir],
     output |-> output, locals |-> locals]

\* The functions a unit is made of: function k is written from offset
\* 200 * k and has no parameter or one small parameter.
FnsAt(k) ==
    {Fn(ins, None, <<>>) : ins \in InputSeqs(0, 200 * k) \cup InputSeqs(1, 200 * k)}

\* The structs of a unit: S without or with one inferred lifetime, without
\* or with a field that is a decided pointer.
UnitStructs ==
    {<<>>}
    \cup {<<Struct("S", <<>>, <<101, 101>>, fs)>> :
             fs \in {<<>>}
                 \cup {<<f>> : f \in AnnotsAt(
                           {LTyOf("RawPtr", "Mut", "", <<U8>>,
                                  TypeDesc("Mut", "Slice"), <<>>)}, 120)}}

RECURSIVE FnSeqs(_)
FnSeqs(n) ==
    IF n = 0 THEN {<<>>}
    ELSE {Append(fs, f) : fs \in FnSeqs(n - 1), f \in FnsAt(n)}

\* prog is the first function of a unit of up to MaxFns functions, pending
\* the others.
CompilationUnit ==
    \E n \in 1..MaxFns : \E fs \in FnSeqs(n) : \E structs \in UnitStructs :
        \E os \in {<<>>, <<Origin("Hypothetical", 0)>>} :
            /\ prog = Signature(fs[1].lty_sig_inputs, fs[1].hir_inputs,
                                fs[1].output, fs[1].locals, structs,
                                [did \in {"S"} |-> Meta(os)])
            /\ pending = Tail(fs)

RECURSIVE ParamSeqs(_)
\* The declared generic parameter lists of exactly n parameters.
ParamSeqs(n) ==
    IF n = 0 THEN {<<>>}
    ELSE {Append(ps, Param(kind, IF kind = "Lifetime" THEN "'p" \o IndexText(n)
                                                     ELSE "T" \o IndexText(n))) :
             ps \in ParamSeqs(n - 1), kind \in {"Lifetime", "Type"}}

RECURSIVE OriginSeqs(_)
\* The lifetime parameter lists of exactly n origins, numbered from 0.
OriginSeqs(n) ==
    IF n = 0 THEN {<<>>}
    ELSE {Append(os, Origin(kind, n - 1)) :
             os \in OriginSeqs(n - 1), kind \in {"Actual", "Hypothetical"}}

\* The field types: a pointer with no, one or two origins, and a primitive.
FieldTys ==
    {U8}
    \cup {LTyOf("RawPtr", "Mut", "", <<U8>>, ptr, origins) :
             ptr \in {None, TypeDesc("Imm", "Single"), TypeDesc("Mut", "Slice")},
             origins \in {<<>>, <<Origin("Hypothetical", 0)>>,
                          <<Origin("Actual", 1)>>,
                          <<Origin("Actual", 0), Origin("Hypothetical", 1)>>}}
    \cup {LTyOf("RawPtr", "Mut", "", <<inner>>, None, <<>>) :
             inner \in {AdtS}
                 \cup {LTyOf("RawPtr", "Not", "", <<U8>>, None, <<o>>) :
                          o \in {Origin("Hypothetical", 0), Origin("Actual", 0)}}}

\* prog is a function without parameters and one struct with up to one
\* field.
StructProgram ==
    \E g \in 0..MaxGenerics : \E l \in 0..MaxLifetimes :
        \E ps \in ParamSeqs(g) : \E os \in OriginSeqs(l) :
            \E fs \in {<<>>} \cup {<<f>> : f \in AnnotsAt(FieldTys, 120)} :
                prog = Program(<<>>, None, <<>>,
                               <<Struct("S", ps, <<101, 101 + 4 * Len(ps)>>, fs)>>,
                               [did \in {"S"} |-> Meta(os)])

(***************************************************************************)
(* SpecTy: one call of gen_ty_rewrites (ty.rs:576-645): the parameters,    *)
(* the return type, the locals of the body, then every item.               *)
(***************************************************************************)
Phases == <<"inputs", "output", "body", "items">>

Count(p, k) ==
    CASE k = 1 -> Len(ZipInputs(p))
      [] k = 2 -> (IF p.output # None THEN 1 ELSE 0)
      [] k = 3 -> Len(p.locals)
      [] k = 4 -> Len(p.structs)

RECURSIVE PosFrom(_, _, _)
\* The first position at or after index i of phase k that has work.
PosFrom(p, k, i) ==
    IF k > Len(Phases) THEN <<"done", 0>>
    ELSE IF i <= Count(p, k) THEN <<Phases[k], i>>
    ELSE PosFrom(p, k + 1, 1)

PhaseNo(name) == CHOOSE k \in 1..Len(Phases) : Phases[k] = name

IdlePretty ==
    /\ rw = Identity
    /\ out = <<>>
    /\ ppc = "idle"

InitTy ==
    /\ IdlePretty
    /\ IdleApply
    /\ IdleInfo
    /\ IdleUniq
    /\ IdleAug
    /\ IdleDec
    /\ \/ /\ \/ \E n \in 1..MaxTyNodes : OneParamProgram(SmallResolvedTys[n])
             \/ OneParamProgram(OnePtrTys)
             \/ SignatureProgram
             \/ StructProgram
             \/ MiswrittenProgram
             \/ MismatchedSignature
             \/ ForeignProgram
          /\ pending = <<>>
       \/ CompilationUnit
    /\ unit_rewrites = <<>>
    /\ hir_rewrites = <<>>
    /\ visited = <<>>
    /\ tpc = "signature"
    /\ cursor = 0

\* The effect of one visit on the visitor and the position after it.
Visit(r) ==
    /\ UNCHANGED <<prog, pending, unit_rewrites>>
    /\ UNCHANGED prettyVars
    /\ UNCHANGED applyVars
    /\ UNCHANGED infoVars
    /\ UNCHANGED uniqVars
    /\ UNCHANGED augVars
    /\ UNCHANGED decVars
    /\ visited' = visited \o r.calls
    /\ hir_rewrites' = hir_rewrites \o r.rws
    /\ IF r.panic
       THEN /\ tpc' = "panicked"
            /\ UNCHANGED cursor
       ELSE /\ tpc' = PosFrom(prog, PhaseNo(tpc), cursor + 1)[1]
            /\ cursor' = PosFrom(prog, PhaseNo(tpc), cursor + 1)[2]

\* CheckSignature without the assertion.
CheckSignature_noAssert ==
    /\ tpc = "signature"
    /\ tpc' = PosFrom(prog, 1, 1)[1]
    /\ cursor' = PosFrom(prog, 1, 1)[2]
    /\ UNCHANGED <<prog, hir_rewrites, visited, pending, unit_rewrites>>
    /\ UNCHANGED prettyVars
    /\ UNCHANGED applyVars
    /\ UNCHANGED infoVars
    /\ UNCHANGED uniqVars
    /\ UNCHANGED augVars
    /\ UNCHANGED decVars
\* The assertion on the two input counts (ty.rs:616).
CheckSignature ==
    /\ tpc = "signature"
    /\ IF Len(prog.lty_sig_inputs) # Len(prog.hir_inputs)
       THEN /\ tpc' = "panicked"
            /\ UNCHANGED cursor
       ELSE /\ tpc' = PosFrom(prog, 1, 1)[1]
            /\ cursor' = PosFrom(prog, 1, 1)[2]
    /\ UNCHANGED <<prog, hir_rewrites, visited, pending, unit_rewrites>>
    /\ UNCHANGED prettyVars
    /\ UNCHANGED applyVars
    /\ UNCHANGED infoVars
    /\ UNCHANGED uniqVars
    /\ UNCHANGED augVars
    /\ UNCHANGED decVars

\* One iteration of the loop over the inputs (ty.rs:617-620).
HandleInput ==
    /\ tpc = "inputs"
    /\ Visit(handle_ty(relabel_rewrites(ZipInputs(prog)[cursor].lty, prog.table),
                       ZipInputs(prog)[cursor].hir, prog.table))

\* The return type (ty.rs:622-631).
HandleOutput ==
    /\ tpc = "output"
    /\ Visit(handle_ty(relabel_rewrites(prog.output.lty, prog.table),
                       prog.output.hir, prog.table))

\* visit_stmt on one `let` of the body (ty.rs:552-573).
VisitStmt ==
    /\ tpc = "body"
    /\ LET l == prog.locals[cursor]
       IN  IF l.annotated /\ l.in_mir
           THEN Visit(handle_ty(relabel_rewrites(l.lty, prog.table), l.hir,
                                prog.table))
           ELSE Visit(Returned(<<>>, <<>>))

\* visit_item on one item (ty.rs:637-640).
VisitItem ==
    /\ tpc = "items"
    /\ Visit(visit_item(prog.structs[cursor], prog.table))

\* The caller's loop over the functions of the unit: the result of the
\* finished run is appended to the unit's edits and gen_ty_rewrites starts on
\* the next function, with the same crate items and metadata.
NextFunction ==
    /\ tpc = "done"
    /\ pending # <<>>
    /\ unit_rewrites' = unit_rewrites \o hir_rewrites
    /\ prog' = [prog EXCEPT !.lty_sig_inputs = Head(pending).lty_sig_inputs,
                            !.hir_inputs = Head(pending).hir_inputs,
                            !.output = Head(pending).output,
                            !.locals = Head(pending).locals]
    /\ pending' = Tail(pending)
    /\ hir_rewrites' = <<>>
    /\ visited' = <<>>
    /\ tpc' = "signature"
    /\ cursor' = 0
    /\ UNCHANGED prettyVars
    /\ UNCHANGED applyVars
    /\ UNCHANGED infoVars
    /\ UNCHANGED uniqVars
    /\ UNCHANGED augVars
    /\ UNCHANGED decVars

NextTy ==
    \/ CheckSignature
    \/ HandleInput
    \/ HandleOutput
    \/ VisitStmt
    \/ VisitItem
    \/ NextFunction

SpecTy == InitTy /\ [][NextTy]_vars

(***************************************************************************)
(* SpecApply: apply_rewrites (mod.rs:275-303), one action per iteration of *)
(* the loop over the rewritten files.  A file is [name, kind, writable]:   *)
(* kind is "Real" for FileName::Real with a local path, "Remapped" for     *)
(* FileName::Real without one (local_path() is None), "Virtual" for any    *)
(* other FileName; writable tells whether fs::write to its new path        *)
(* succeeds.                                                               *)
(***************************************************************************)
FileKinds == {"Real", "Remapped", "Virtual"}

File(name, kind, writable) == [name |-> name, kind |-> kind, writable |-> writable]

\* The files a FileName can be: only a real local path can fail to write.
FilesNamed(name) ==
    {File(name, "Real", w) : w \in BOOLEAN}
    \cup {File(name, kind, TRUE) : kind \in FileKinds}

RECURSIVE FileSeqs(_)
\* The sequences of exactly n files, file i named by its index.
FileSeqs(n) ==
    IF n = 0 THEN {<<>>}
    ELSE {Append(fs, f) : fs \in FileSeqs(n - 1),
                          f \in FilesNamed("f" \o IndexText(n))}

\* A line of the log about a file.
Line(msg, name) == [msg |-> msg, file |-> name]

\* old_path.with_extension("new.rs") (mod.rs:300).
with_extension(name) == name \o ".new.rs"

\* The debug dump of a file (mod.rs:280-291).
Dump(f) == <<Line("BEGIN", f.name), Line("END", f.name)>>

InitApply ==
    /\ IdlePretty
    /\ IdleTy
    /\ IdleInfo
    /\ IdleUniq
    /\ IdleAug
    /\ IdleDec
    /\ \E n \in 0..MaxFiles : new_src \in FileSeqs(n)
    /\ file_idx = 1
    /\ written = {}
    /\ stderr = <<>>
    /\ apc = "loop"

Frame ==
    /\ UNCHANGED new_src
    /\ UNCHANGED prettyVars
    /\ UNCHANGED tyVars
    /\ UNCHANGED infoVars
    /\ UNCHANGED uniqVars
    /\ UNCHANGED augVars
    /\ UNCHANGED decVars

\* An iteration on a real file that is written (mod.rs:293-301).
WriteFile ==
    /\ apc = "loop"
    /\ file_idx <= Len(new_src)
    /\ new_src[file_idx].kind = "Real"
    /\ new_src[file_idx].writable
    /\ stderr' = stderr \o Dump(new_src[file_idx])
    /\ written' = written \cup {with_extension(new_src[file_idx].name)}
    /\ file_idx' = file_idx + 1
    /\ UNCHANGED apc
    /\ Frame

\* An iteration on a file that is not FileName::Real (mod.rs:295-298).
SkipNonReal ==
    /\ apc = "loop"
    /\ file_idx <= Len(new_src)
    /\ new_src[file_idx].kind = "Virtual"
    /\ stderr' = stderr \o Dump(new_src[file_idx])
                 \o <<Line("can't rewrite non-real file", new_src[file_idx].name)>>
    /\ file_idx' = file_idx + 1
    /\ UNCHANGED <<written, apc>>
    /\ Frame

\* An iteration whose unwrap panics: local_path() is None (mod.rs:294) or
\* fs::write fails (mod.rs:301).
UnwrapPanics ==
    /\ apc = "loop"
    /\ file_idx <= Len(new_src)
    /\ \/ new_src[file_idx].kind = "Remapped"
       \/ new_src[file_idx].kind = "Real" /\ ~new_src[file_idx].writable
    /\ stderr' = stderr \o Dump(new_src[file_idx])
    /\ apc' = "panicked"
    /\ UNCHANGED <<written, file_idx>>
    /\ Frame

\* The loop is over (mod.rs:302-303).
ReturnApply ==
    /\ apc = "loop"
    /\ file_idx > Len(new_src)
    /\ apc' = "returned"
    /\ UNCHANGED <<written, file_idx, stderr>>
    /\ Frame

NextApply == WriteFile \/ SkipNonReal \/ UnwrapPanics \/ ReturnApply

SpecApply == InitApply /\ [][NextApply]_vars

(***************************************************************************)
(*                 The node information of a graph (info.rs)               *)
(*                                                                         *)
(* A graph is the sequence of its nodes (Graph::nodes); a NodeId is the    *)
(* node's position in it, counted from 1.  A node is                       *)
(* [kind, source, node_info]: source is None or Some(id of the node it     *)
(* derives from), node_info None until augment_with_info sets it.          *)
(***************************************************************************)
AddrOfLocal == [k |-> "AddrOfLocal"]
Copy == [k |-> "Copy"]
Field(f) == [k |-> "Field", f |-> f]
Offset(x) == [k |-> "Offset", x |-> x]
LoadAddr == [k |-> "LoadAddr"]
LoadValue == [k |-> "LoadValue"]
StoreAddr == [k |-> "StoreAddr"]
StoreValue == [k |-> "StoreValue"]

Node(kind, source, node_info) ==
    [kind |-> kind, source |-> source, node_info |-> node_info]

\* struct NodeInfo (info.rs:17-23).
NodeInfo(mutation, load, pos_offset, neg_offset, non_unique) ==
    [flows_to_mutation |-> mutation, flows_to_load |-> load,
     flows_to_pos_offset |-> pos_offset, flows_to_neg_offset |-> neg_offset,
     non_unique |-> non_unique]

node_does_mutation(n) == n.kind.k \in {"StoreAddr", "StoreValue"}

node_does_load(n) == n.kind.k \in {"LoadAddr", "LoadValue"}

\* node_does_pos_offset that counts a zero offset.
node_does_pos_offset_ge(n) == n.kind.k = "Offset" /\ n.kind.x >= 0
node_does_pos_offset(n) == n.kind.k = "Offset" /\ n.kind.x > 0

node_does_neg_offset(n) == n.kind.k = "Offset" /\ n.kind.x < 0

\* The `node_check` function pointers handed to check_flows_to_node_kind.
node_check(check, n) ==
    CASE check = "node_does_mutation" -> node_does_mutation(n)
      [] check = "node_does_load" -> node_does_load(n)
      [] check = "node_does_pos_offset" -> node_does_pos_offset(n)
      [] check = "node_does_neg_offset" -> node_does_neg_offset(n)

\* The ids add_children_to_vec (info.rs:127-134) appends: every node whose
\* source is in parents, in index order.
add_children_to_vec(g, parents) ==
    SelectSeq([id \in 1..Len(g) |-> id],
              LAMBDA id : /\ g[id].source # None
                          /\ g[id].source.v \in parents)

RECURSIVE flows_loop(_, _, _, _)
\* The loop of check_flows_to_node_kind (info.rs:143-154).
flows_loop(g, check, seen, to_view) ==
    IF to_view = <<>> THEN None
    ELSE LET node_id_to_check == to_view[Len(to_view)]
             popped == SubSeq(to_view, 1, Len(to_view) - 1)
         IN  IF node_id_to_check \in seen
             THEN flows_loop(g, check, seen, popped)
             ELSE IF node_check(check, g[node_id_to_check])
             THEN Some(node_id_to_check)
             ELSE LET seen1 == seen \cup {node_id_to_check}
                  IN  flows_loop(g, check, seen1,
                                 popped \o add_children_to_vec(g, seen1))

check_flows_to_node_kind(g, n, check) == flows_loop(g, check, {}, <<n>>)

RECURSIVE greatest_loop(_, _, _, _)
\* The loop of greatest_desc (info.rs:162-171).
greatest_loop(g, desc_seen, to_view, greatest_node_idx) ==
    IF to_view = <<>> THEN greatest_node_idx
    ELSE LET node_id_to_check == to_view[Len(to_view)]
             popped == SubSeq(to_view, 1, Len(to_view) - 1)
         IN  IF node_id_to_check \in desc_seen
             THEN greatest_loop(g, desc_seen, popped, greatest_node_idx)
             ELSE LET seen1 == desc_seen \cup {node_id_to_check}
                  IN  greatest_loop(
                          g, seen1, popped \o add_children_to_vec(g, seen1),
                          IF node_id_to_check > greatest_node_idx
                          THEN node_id_to_check ELSE greatest_node_idx)

greatest_desc(g, n) == greatest_loop(g, {}, <<n>>, n)

RECURSIVE lineage_loop(_, _, _)
\* The loop of calc_lineage (info.rs:181-196).
lineage_loop(g, n_idx, lineage) ==
    LET node == g[n_idx]
    IN  IF node.source = None THEN <<n_idx, lineage>>
        ELSE CASE node.kind.k \in {"Offset", "Copy"} ->
                      lineage_loop(g, node.source.v, lineage)
               [] node.kind.k = "Field" ->
                      lineage_loop(g, node.source.v, Append(lineage, node.kind.f))
               [] OTHER -> <<n_idx, lineage>>

\* calc_lineage (info.rs:178-198): the ancestor and the fields met on the
\* way up, the last one the closest to the ancestor.
calc_lineage(g, n) == lineage_loop(g, n, <<>>)

\* The (id, lineage) pairs pushed at info.rs:227-233: the nodes whose source
\* is cur_node_id, in index order.
ChildrenWith(g, cur_node_id, lineage) ==
    LET ids == SelectSeq([id \in 1..Len(g) |-> id],
                         LAMBDA id : /\ g[id].source # None
                                     /\ g[id].source.v = cur_node_id)
    IN  [i \in 1..Len(ids) |-> <<ids[i], lineage>>]

RECURSIVE rules_loop(_, _, _, _)
\* The loop of check_whether_rules_obeyed (info.rs:207-234).
rules_loop(g, n, youngest_descendent, to_view) ==
    IF to_view = <<>> THEN None
    ELSE LET cur_node_id == to_view[Len(to_view)][1]
             lineage0 == to_view[Len(to_view)][2]
             popped == SubSeq(to_view, 1, Len(to_view) - 1)
             is_field == g[cur_node_id].kind.k = "Field"
             lineage == IF is_field /\ lineage0 # <<>>
                        THEN SubSeq(lineage0, 1, Len(lineage0) - 1)
                        ELSE lineage0
         IN  IF cur_node_id = n
             THEN rules_loop(g, n, youngest_descendent, popped)
             ELSE IF is_field /\ lineage0 = <<>>
             THEN rules_loop(g, n, youngest_descendent, popped)
             ELSE IF is_field /\ lineage0[Len(lineage0)] # g[cur_node_id].kind.f
             THEN rules_loop(g, n, youngest_descendent, popped)
             ELSE IF /\ lineage = <<>>
                     /\ cur_node_id >= n
                     /\ cur_node_id <= youngest_descendent
             THEN Some(cur_node_id)
             ELSE rules_loop(g, n, youngest_descendent,
                             popped \o ChildrenWith(g, cur_node_id, lineage))

\* check_whether_rules_obeyed (info.rs:203-236).
check_whether_rules_obeyed(g, n) ==
    LET oldest == calc_lineage(g, n)
    IN  rules_loop(g, n, greatest_desc(g, n), <<oldest>>)

\* HashMap::insert of an Option that is Some, as the `if let` of
\* info.rs:249-263 does.
InsertIfSome(m, key, opt) ==
    IF opt = None THEN m
    ELSE [x \in DOMAIN m \cup {key} |-> IF x = key THEN opt.v ELSE m[x]]

\* HashMap::remove: the value it returns and the map it leaves.
Removed(m, key) == IF key \in DOMAIN m THEN Some(m[key]) ELSE None
Without(m, key) == [x \in DOMAIN m \ {key} |-> m[x]]

\* The five maps created for a graph (info.rs:243-247).
NewMaps ==
    [idx_flow_to_mut |-> <<>>, idx_flow_to_use |-> <<>>,
     idx_flow_to_pos_offset |-> <<>>, idx_flow_to_neg_offset |-> <<>>,
     idx_non_unique |-> <<>>]

(***************************************************************************)
(* The graphs augment_with_info runs on.  The first node is a root         *)
(* (AddrOfLocal, no source); a later node is another root or derives, by   *)
(* one of the kinds given, from an earlier node.                           *)
(***************************************************************************)
AllKinds ==
    {Copy, Field(0), Field(1), Offset(1), Offset(-1), Offset(0),
     LoadAddr, LoadValue, StoreAddr, StoreValue}
LineageKinds == {Copy, Field(0), Field(1), StoreValue}

RECURSIVE GraphsAnySource(_, _)
\* GraphsOf without the order of the source edges: the source of a node is
\* an earlier node or the node itself.
GraphsAnySource(kinds, n) ==
    IF n = 1 THEN {<<Node(AddrOfLocal, None, None)>>}
    ELSE LET smaller == GraphsAnySource(kinds, n - 1)
         IN  {Append(g, Node(AddrOfLocal, None, None)) : g \in smaller}
             \cup {Append(g, Node(kind, Some(src), None)) :
                      g \in smaller, kind \in kinds, src \in 1..n}

RECURSIVE GraphsOf(_, _)
\* The graphs of exactly n nodes over kinds.
GraphsOf(kinds, n) ==
    IF n = 1 THEN {<<Node(AddrOfLocal, None, None)>>}
    ELSE LET smaller == GraphsOf(kinds, n - 1)
         IN  {Append(g, Node(AddrOfLocal, None, None)) : g \in smaller}
             \cup {Append(g, Node(kind, Some(src), None)) :
                      g \in smaller, kind \in kinds, src \in 1..(n - 1)}

\* A second graph of the set, to have more than one.
OtherGraph ==
    <<Node(AddrOfLocal, None, None), Node(Offset(-1), Some(1), None),
      Node(StoreValue, Some(2), None)>>

(***************************************************************************)
(* SpecInfo: augment_with_info (info.rs:240-275), one action per iteration *)
(* of each of the two loops over the nodes of a graph.                     *)
(***************************************************************************)
InitInfo ==
    /\ IdlePretty
    /\ IdleTy
    /\ IdleApply
    /\ IdleDec
    /\ IdleUniq
    /\ IdleAug
    /\ \/ \E n \in 1..MaxNodes : \E g \in GraphsOf(AllKinds, n) :
             pdg \in {<<g>>, <<OtherGraph, g>>}
       \/ \E n \in 1..MaxLineageNodes : \E g \in GraphsOf(LineageKinds, n) :
             pdg = <<g>>
    /\ graph_idx = 1
    /\ node_idx = 1
    /\ idx_maps = NewMaps
    /\ ipc = "check"

InfoFrame ==
    /\ UNCHANGED prettyVars
    /\ UNCHANGED tyVars
    /\ UNCHANGED applyVars
    /\ UNCHANGED decVars
    /\ UNCHANGED uniqVars
    /\ UNCHANGED augVars

\* One iteration of the first loop (info.rs:248-264).
CheckNode ==
    /\ ipc = "check"
    /\ LET g == pdg[graph_idx]
           idx == node_idx
       IN  /\ idx_maps' =
                [idx_flow_to_mut |->
                    InsertIfSome(idx_maps.idx_flow_to_mut, idx,
                        check_flows_to_node_kind(g, idx, "node_does_mutation")),
                 idx_flow_to_use |->
                    InsertIfSome(idx_maps.idx_flow_to_use, idx,
                        check_flows_to_node_kind(g, idx, "node_does_load")),
                 idx_flow_to_pos_offset |->
                    InsertIfSome(idx_maps.idx_flow_to_pos_offset, idx,
                        check_flows_to_node_kind(g, idx, "node_does_pos_offset")),
                 idx_flow_to_neg_offset |->
                    InsertIfSome(idx_maps.idx_flow_to_neg_offset, idx,
                        check_flows_to_node_kind(g, idx, "node_does_neg_offset")),
                 idx_non_unique |->
                    InsertIfSome(idx_maps.idx_non_unique, idx,
                        check_whether_rules_obeyed(g, idx))]
           /\ IF idx < Len(g)
              THEN node_idx' = idx + 1 /\ UNCHANGED ipc
              ELSE node_idx' = 1 /\ ipc' = "assign"
    /\ UNCHANGED <<pdg, graph_idx>>
    /\ InfoFrame

\* One iteration of the second loop (info.rs:265-273); after the last node
\* of the graph the outer loop goes to the next graph with new maps, or
\* augment_with_info returns.
SetNodeInfo ==
    /\ ipc = "assign"
    /\ LET g == pdg[graph_idx]
           idx == node_idx
           pos1 == Without(idx_maps.idx_flow_to_pos_offset, idx)
           info == NodeInfo(Removed(idx_maps.idx_flow_to_mut, idx),
                            Removed(idx_maps.idx_flow_to_use, idx),
                            Removed(idx_maps.idx_flow_to_pos_offset, idx),
                            Removed(pos1, idx),
                            Removed(idx_maps.idx_non_unique, idx))
           last == idx = Len(g)
       IN  /\ pdg' = [pdg EXCEPT ![graph_idx][idx].node_info = info]
           /\ idx_maps' =
                IF last /\ graph_idx < Len(pdg) THEN NewMaps
                ELSE [idx_maps EXCEPT
                        !.idx_flow_to_mut = Without(@, idx),
                        !.idx_flow_to_use = Without(@, idx),
                        !.idx_flow_to_pos_offset = Without(pos1, idx),
                        !.idx_non_unique = Without(@, idx)]
           /\ node_idx' = IF last THEN 1 ELSE idx + 1
           /\ graph_idx' = IF last /\ graph_idx < Len(pdg)
                           THEN graph_idx + 1 ELSE graph_idx
           /\ ipc' = IF ~last THEN "assign"
                     ELSE IF graph_idx < Len(pdg) THEN "check" ELSE "done"
    /\ InfoFrame

NextInfo == CheckNode \/ SetNodeInfo

SpecInfo == InitInfo /\ [][NextInfo]_vars

(***************************************************************************)
(* SpecDeconstruct: deconstruct_hir_ty (ty.rs:149-225) on one pair of a    *)
(* resolved type and a written type, then the pairing of the resolved      *)
(* children with the written children that handle_ty iterates over         *)
(* (ty.rs:438).                                                            *)
(***************************************************************************)
\* A resolved type without annotations.
Plain(kind, m, name, args) == LTyOf(kind, m, name, args, None, <<>>)

\* The written `u8` that is child i of a written type.
WrittenChild(i) == HirTy("Path", "Not", "u8", FALSE, <<>>, <<10 * i, 10 * i + 2>>)
WrittenChildren(n) == [i \in 1..n |-> WrittenChild(i)]
ResolvedChildren(n) == [i \in 1..n |-> Plain("Uint", "Not", "u8", <<>>)]

\* The resolved types: every primitive kind, every fixed-arity kind, ADTs
\* of up to MaxArgs type arguments, and a kind with no decomposition rule.
ResolvedShapes ==
    {Plain("Bool", "Not", "", <<>>), Plain("Char", "Not", "", <<>>),
     Plain("Int", "Not", "i32", <<>>), Plain("Uint", "Not", "u8", <<>>),
     Plain("Float", "Not", "f64", <<>>), Plain("Str", "Not", "", <<>>),
     Plain("Array", "Not", "", ResolvedChildren(1)),
     Plain("Slice", "Not", "", ResolvedChildren(1)),
     Plain("FnPtr", "Not", "", <<>>)}
    \cup {Plain(kind, m, "", ResolvedChildren(1)) :
             kind \in {"RawPtr", "Ref"}, m \in Mutability}
    \cup {Plain("Tuple", "Not", "", ResolvedChildren(n)) : n \in 0..MaxTupleArity}
    \cup {Plain("Adt", "Not", "G", ResolvedChildren(n)) : n \in 0..MaxArgs}

\* The written types: a path to each primitive, to an alias and to an ADT
\* with and without generic arguments, each syntax with children, and `_`.
WrittenShapes ==
    {HirTy("Path", "Not", res, FALSE, <<>>, <<1, 4>>) :
        res \in PrimNames \cup {"TyAlias", "G"}}
    \cup {HirTy("Path", "Not", "G", TRUE, WrittenChildren(n), <<1, 40>>) :
             n \in 0..MaxArgs}
    \cup {HirTy(kind, "Not", "", FALSE, WrittenChildren(1), <<1, 40>>) :
             kind \in {"Array", "Slice"}}
    \cup {HirTy(kind, m, "", FALSE, WrittenChildren(1), <<1, 40>>) :
             kind \in {"Ptr", "Rptr"}, m \in Mutability}
    \cup {HirTy("Tup", "Not", "", FALSE, WrittenChildren(n), <<1, 40>>) :
             n \in 0..MaxTupleArity}
    \cup {HirTy("Infer", "Not", "", FALSE, <<>>, <<1, 2>>),
          HirTy("BareFn", "Not", "", FALSE, <<>>, <<1, 4>>)}

InitDeconstruct ==
    /\ IdlePretty
    /\ IdleTy
    /\ IdleApply
    /\ IdleInfo
    /\ IdleUniq
    /\ IdleAug
    /\ \E ty \in ResolvedShapes : \E hir_ty \in WrittenShapes :
           dec_in = Annot(ty, hir_ty)
    /\ dec_out = None
    /\ zipped = <<>>
    /\ dpc = "start"

DecFrame ==
    /\ UNCHANGED dec_in
    /\ UNCHANGED prettyVars
    /\ UNCHANGED tyVars
    /\ UNCHANGED applyVars
    /\ UNCHANGED infoVars
    /\ UNCHANGED uniqVars
    /\ UNCHANGED augVars

\* The call of deconstruct_hir_ty (ty.rs:370).
Deconstruct ==
    /\ dpc = "start"
    /\ dec_out' = deconstruct_hir_ty(dec_in.lty, dec_in.hir)
    /\ dpc' = "deconstructed"
    /\ UNCHANGED zipped
    /\ DecFrame

\* `rw_lty.args.iter().zip(hir_args.into_iter())` (ty.rs:438): pairs up to
\* the shorter of the two lists.
Zip ==
    /\ dpc = "deconstructed"
    /\ dec_out # None
    /\ zipped' = [i \in 1..Min(Len(dec_in.lty.args), Len(dec_out.v)) |->
                     Annot(dec_in.lty.args[i], dec_out.v[i])]
    /\ dpc' = "zipped"
    /\ UNCHANGED dec_out
    /\ DecFrame

NextDeconstruct == Deconstruct \/ Zip

SpecDeconstruct == InitDeconstruct /\ [][NextDeconstruct]_vars

(***************************************************************************)
(* SpecUniq: create_uniqueness_info (info.rs:76-93) on one graph: the two  *)
(* maps computed first, then one action per test of the `while let` over   *)
(* the work-list.                                                          *)
(***************************************************************************)
\* struct GraphTraverseInfo (info.rs:31-37).
GraphTraverseInfo(last, load, store, pos_offset, neg_offset) ==
    [last_descendent |-> last, flows_to_load |-> load, flows_to_store |-> store,
     flows_to_pos_offset |-> pos_offset, flows_to_neg_offset |-> neg_offset]

\* `b.then(|| n_id)`.
Then(b, n_id) == IF b THEN Some(n_id) ELSE None

\* init_traverse_info (info.rs:39-47).
init_traverse_info(n_id, n) ==
    GraphTraverseInfo(Some(n_id),
                      Then(node_does_load(n), n_id),
                      Then(node_does_mutation(n), n_id),
                      Then(node_does_pos_offset(n), n_id),
                      Then(node_does_neg_offset(n), n_id))

\* Option::or.
Or(a, b) == IF a # None THEN a ELSE b
\* cmp::max on two Options: None is the least, Some(a) <= Some(b) iff a <= b;
\* the second argument is returned when the two compare equal.
MaxOpt(a, b) ==
    IF a = None THEN b
    ELSE IF b = None THEN a
    ELSE IF a.v > b.v THEN a ELSE b

\* The body of the loop of create_flow_info on node n_id (info.rs:55-64).
flow_step(g, f, n_id) ==
    LET cur == f[n_id]
        node == g[n_id]
    IN  IF node.source = None THEN f
        ELSE LET p_id == node.source.v
                 parent == f[p_id]
             IN  [f EXCEPT ![p_id] =
                    GraphTraverseInfo(
                        MaxOpt(cur.last_descendent, parent.last_descendent),
                        Or(parent.flows_to_load, cur.flows_to_load),
                        Or(parent.flows_to_store, cur.flows_to_store),
                        Or(parent.flows_to_pos_offset, cur.flows_to_pos_offset),
                        Or(parent.flows_to_neg_offset, cur.flows_to_neg_offset))]

\* flow_step that merges into the parent before the node's own entry is
\* complete: the nodes taken in index order instead of reverse order.
RECURSIVE flow_loop_forward(_, _, _)
flow_loop_forward(g, f, n_id) ==
    IF n_id = 0 THEN f
    ELSE flow_loop_forward(g, flow_step(g, f, Len(g) + 1 - n_id), n_id - 1)
RECURSIVE flow_loop(_, _, _)
\* The loop of create_flow_info over the nodes in reverse order
\* (info.rs:54-65), from node n_id down.
flow_loop(g, f, n_id) ==
    IF n_id = 0 THEN f
    ELSE flow_loop(g, flow_step(g, f, n_id), n_id - 1)

\* create_flow_info (info.rs:49-66).
create_flow_info(g) ==
    flow_loop(g, [idx \in 1..Len(g) |-> init_traverse_info(idx, g[idx])], Len(g))

\* collect_children (info.rs:68-74): an entry for each node that is the
\* source of some node, its children in index order.
collect_children(g) ==
    [par \in {g[id].source.v : id \in {i \in 1..Len(g) : g[i].source # None}} |->
        SelectSeq([id \in 1..Len(g) |-> id],
                  LAMBDA id : g[id].source # None /\ g[id].source.v = par)]

InitUniq ==
    /\ IdlePretty
    /\ IdleTy
    /\ IdleApply
    /\ IdleInfo
    /\ IdleDec
    /\ IdleAug
    /\ \/ ugraph = <<>>
       \/ \E n \in 1..MaxNodes : ugraph \in GraphsOf(AllKinds, n)
       \/ \E n \in 1..MaxLineageNodes : ugraph \in GraphsOf(LineageKinds, n)
    /\ downward = <<>>
    /\ flow_info = <<>>
    /\ u_to_view = <<>>
    /\ path_to_fields = <<>>
    /\ curidx = 0
    /\ upc = "start"

UniqFrame ==
    /\ UNCHANGED ugraph
    /\ UNCHANGED prettyVars
    /\ UNCHANGED tyVars
    /\ UNCHANGED applyVars
    /\ UNCHANGED infoVars
    /\ UNCHANGED decVars
    /\ UNCHANGED augVars

\* The three `let`s before the loop (info.rs:77-80); `nth(0).unwrap()`
\* panics on a graph without nodes.
CollectAndFlow ==
    /\ upc = "start"
    /\ downward' = collect_children(ugraph)
    /\ flow_info' = create_flow_info(ugraph)
    /\ IF ugraph = <<>>
       THEN upc' = "panicked" /\ UNCHANGED u_to_view
       ELSE upc' = "view" /\ u_to_view' = <<<<1, <<>>>>>>
    /\ UNCHANGED <<path_to_fields, curidx>>
    /\ UniqFrame

\* The (child, path) pairs pushed for the children (info.rs:83-88).
newchildren(g, children, path) ==
    [i \in 1..Len(children) |->
        IF g[children[i]].kind.k = "Field"
        THEN <<children[i], Append(path, g[children[i]].kind.f)>>
        ELSE <<children[i], path>>]

\* One test of `while let Some(..) = to_view.pop()` (info.rs:81-90): with
\* an empty work-list control goes to `loop { }` (info.rs:91-92), which has
\* no exit; otherwise the last entry is popped, `downward.get(..).unwrap()`
\* panics for a node without an entry, and else the children are pushed and
\* the node is recorded under its path.
ViewNode ==
    /\ upc = "view"
    /\ IF u_to_view = <<>>
       THEN /\ upc' = "loop"
            /\ UNCHANGED <<u_to_view, path_to_fields, curidx>>
       ELSE LET cur == u_to_view[Len(u_to_view)][1]
                path == u_to_view[Len(u_to_view)][2]
                popped == SubSeq(u_to_view, 1, Len(u_to_view) - 1)
            IN  /\ curidx' = cur
                /\ IF cur \notin DOMAIN downward
                   THEN /\ upc' = "panicked"
                        /\ u_to_view' = popped
                        /\ UNCHANGED path_to_fields
                   ELSE /\ upc' = "view"
                        /\ u_to_view' = popped \o newchildren(ugraph, downward[cur], path)
                        /\ path_to_fields' =
                             [p \in DOMAIN path_to_fields \cup {path} |->
                                 IF p = path
                                 THEN (IF path \in DOMAIN path_to_fields
                                       THEN Append(path_to_fields[path], cur)
                                       ELSE <<cur>>)
                                 ELSE path_to_fields[p]]
    /\ UNCHANGED <<downward, flow_info>>
    /\ UniqFrame

NextUniq == CollectAndFlow \/ ViewNode

SpecUniq == InitUniq /\ [][NextUniq]_vars

(***************************************************************************)
(* SpecAugment: augment_with_info (info.rs:240-275) with the searches it   *)
(* calls run one loop iteration per action, to state termination.          *)
(***************************************************************************)
\* The five calls of the body of the first loop (info.rs:249-263), in
\* order, and the map each result is inserted into.
Calls ==
    <<"node_does_mutation", "node_does_load", "node_does_pos_offset",
      "node_does_neg_offset", "check_whether_rules_obeyed">>
CallMap ==
    <<"idx_flow_to_mut", "idx_flow_to_use", "idx_flow_to_pos_offset",
      "idx_flow_to_neg_offset", "idx_non_unique">>

\* The locals of the searches: seen / desc_seen, to_view, n_idx and lineage
\* of calc_lineage, greatest_node_idx, and the result of calc_lineage kept
\* by check_whether_rules_obeyed.
SearchLocals(seen, to_view, n_idx, lineage, greatest_node_idx, oldest) ==
    [seen |-> seen, to_view |-> to_view, n_idx |-> n_idx, lineage |-> lineage,
     greatest_node_idx |-> greatest_node_idx, oldest |-> oldest]
NoLocals == SearchLocals({}, <<>>, 0, <<>>, 0, <<>>)

AugKinds == {Copy, Field(0), Field(1), Offset(1), Offset(-1), StoreValue}

InitAugment ==
    /\ IdlePretty
    /\ IdleTy
    /\ IdleApply
    /\ IdleInfo
    /\ IdleDec
    /\ IdleUniq
    /\ \E n \in 1..MaxNodes : \E g \in GraphsOf(AugKinds, n) :
          \/ aug_pdg = <<g>>
          \/ n = 1 /\ aug_pdg = <<OtherGraph, g>>
    /\ aug_graph_idx = 1
    /\ aug_node_idx = 1
    /\ aug_maps = NewMaps
    /\ aug_call = 1
    /\ aug_locals = NoLocals
    /\ aug_pc = "call"

AugFrame ==
    /\ UNCHANGED prettyVars
    /\ UNCHANGED tyVars
    /\ UNCHANGED applyVars
    /\ UNCHANGED infoVars
    /\ UNCHANGED decVars
    /\ UNCHANGED uniqVars

\* A search is entered: the statements before its loop (info.rs:141-142
\* for check_flows_to_node_kind; info.rs:204 and 179-180 for
\* check_whether_rules_obeyed, which calls calc_lineage first).
BeginCall ==
    /\ aug_pc = "call"
    /\ IF Calls[aug_call] = "check_whether_rules_obeyed"
       THEN /\ aug_locals' = SearchLocals({}, <<>>, aug_node_idx, <<>>, 0, <<>>)
            /\ aug_pc' = "calc_lineage"
       ELSE /\ aug_locals' = SearchLocals({}, <<aug_node_idx>>, 0, <<>>, 0, <<>>)
            /\ aug_pc' = "check_flows_to_node_kind"
    /\ UNCHANGED <<aug_pdg, aug_graph_idx, aug_node_idx, aug_maps, aug_call>>
    /\ AugFrame

\* The search returns opt: the `if let Some(..)` inserts it into the map of
\* the call (info.rs:249-263) and the body goes on to the next call, the
\* loop to the next node, or the second loop begins.
CallReturns(opt) ==
    /\ aug_maps' = [aug_maps EXCEPT ![CallMap[aug_call]] =
                        InsertIfSome(@, aug_node_idx, opt)]
    /\ aug_locals' = NoLocals
    /\ IF aug_call < Len(Calls)
       THEN /\ aug_call' = aug_call + 1
            /\ aug_pc' = "call"
            /\ UNCHANGED aug_node_idx
       ELSE /\ aug_call' = 1
            /\ IF aug_node_idx < Len(aug_pdg[aug_graph_idx])
               THEN aug_node_idx' = aug_node_idx + 1 /\ aug_pc' = "call"
               ELSE aug_node_idx' = 1 /\ aug_pc' = "assign"
    /\ UNCHANGED <<aug_pdg, aug_graph_idx>>

\* The search stays in its loop with new locals.
Continue(locals) ==
    /\ aug_locals' = locals
    /\ UNCHANGED <<aug_pdg, aug_graph_idx, aug_node_idx, aug_maps, aug_call, aug_pc>>

\* One test of the `while let` of check_flows_to_node_kind (info.rs:143-155).
FlowsIter ==
    /\ aug_pc = "check_flows_to_node_kind"
    /\ LET g == aug_pdg[aug_graph_idx]
           l == aug_locals
           to_view == l.to_view
       IN  IF to_view = <<>> THEN CallReturns(None)
           ELSE LET node_id_to_check == to_view[Len(to_view)]
                    popped == SubSeq(to_view, 1, Len(to_view) - 1)
                    seen1 == l.seen \cup {node_id_to_check}
                IN  IF node_id_to_check \in l.seen
                    THEN Continue([l EXCEPT !.to_view = popped])
                    ELSE IF node_check(Calls[aug_call], g[node_id_to_check])
                    THEN CallReturns(Some(node_id_to_check))
                    ELSE Continue([l EXCEPT
                            !.seen = seen1,
                            !.to_view = popped \o add_children_to_vec(g, seen1)])
    /\ AugFrame

\* One iteration of the `loop` of calc_lineage (info.rs:181-196); at a
\* `break` the pair is returned to check_whether_rules_obeyed, which calls
\* greatest_desc (info.rs:205, 158-161).
LineageIter ==
    /\ aug_pc = "calc_lineage"
    /\ LET g == aug_pdg[aug_graph_idx]
           l == aug_locals
           node == g[l.n_idx]
           break == /\ aug_locals' =
                          SearchLocals({}, <<aug_node_idx>>, 0, <<>>, aug_node_idx,
                                       <<l.n_idx, l.lineage>>)
                    /\ aug_pc' = "greatest_desc"
       IN  IF node.source = None THEN break
           ELSE CASE node.kind.k \in {"Offset", "Copy"} ->
                        /\ aug_locals' = [l EXCEPT !.n_idx = node.source.v]
                        /\ UNCHANGED aug_pc
                  [] node.kind.k = "Field" ->
                        /\ aug_locals' = [l EXCEPT
                                            !.n_idx = node.source.v,
                                            !.lineage = Append(@, node.kind.f)]
                        /\ UNCHANGED aug_pc
                  [] OTHER -> break
    /\ UNCHANGED <<aug_pdg, aug_graph_idx, aug_node_idx, aug_maps, aug_call>>
    /\ AugFrame

\* One test of the `while let` of greatest_desc (info.rs:162-172); when it
\* returns, check_whether_rules_obeyed makes its work-list (info.rs:206).
GreatestIter ==
    /\ aug_pc = "greatest_desc"
    /\ LET g == aug_pdg[aug_graph_idx]
           l == aug_locals
           to_view == l.to_view
       IN  IF to_view = <<>>
           THEN /\ aug_locals' = [l EXCEPT !.seen = {}, !.to_view = <<l.oldest>>]
                /\ aug_pc' = "check_whether_rules_obeyed"
           ELSE LET node_id_to_check == to_view[Len(to_view)]
                    popped == SubSeq(to_view, 1, Len(to_view) - 1)
                    seen1 == l.seen \cup {node_id_to_check}
                IN  /\ UNCHANGED aug_pc
                    /\ IF node_id_to_check \in l.seen
                       THEN aug_locals' = [l EXCEPT !.to_view = popped]
                       ELSE aug_locals' = [l EXCEPT
                              !.seen = seen1,
                              !.to_view = popped \o add_children_to_vec(g, seen1),
                              !.greatest_node_idx =
                                  IF node_id_to_check > @ THEN node_id_to_check ELSE @]
    /\ UNCHANGED <<aug_pdg, aug_graph_idx, aug_node_idx, aug_maps, aug_call>>
    /\ AugFrame

\* One test of the `while let` of check_whether_rules_obeyed
\* (info.rs:207-235).
RulesIter ==
    /\ aug_pc = "check_whether_rules_obeyed"
    /\ LET g == aug_pdg[aug_graph_idx]
           n == aug_node_idx
           l == aug_locals
           to_view == l.to_view
       IN  IF to_view = <<>> THEN CallReturns(None)
           ELSE LET cur_node_id == to_view[Len(to_view)][1]
                    lineage0 == to_view[Len(to_view)][2]
                    popped == SubSeq(to_view, 1, Len(to_view) - 1)
                    is_field == g[cur_node_id].kind.k = "Field"
                    lineage == IF is_field /\ lineage0 # <<>>
                               THEN SubSeq(lineage0, 1, Len(lineage0) - 1)
                               ELSE lineage0
                    continue == Continue([l EXCEPT !.to_view = popped])
                IN  IF cur_node_id = n THEN continue
                    ELSE IF is_field /\ lineage0 = <<>> THEN continue
                    ELSE IF is_field /\ lineage0[Len(lineage0)] # g[cur_node_id].kind.f
                    THEN continue
                    ELSE IF /\ lineage = <<>>
                            /\ cur_node_id >= n
                            /\ cur_node_id <= l.greatest_node_idx
                    THEN CallReturns(Some(cur_node_id))
                    ELSE Continue([l EXCEPT !.to_view =
                            popped \o ChildrenWith(g, cur_node_id, lineage)])
    /\ AugFrame

\* One iteration of the second loop (info.rs:265-273), as SetNodeInfo.
AssignIter ==
    /\ aug_pc = "assign"
    /\ LET g == aug_pdg[aug_graph_idx]
           idx == aug_node_idx
           pos1 == Without(aug_maps.idx_flow_to_pos_offset, idx)
           info == NodeInfo(Removed(aug_maps.idx_flow_to_mut, idx),
                            Removed(aug_maps.idx_flow_to_use, idx),
                            Removed(aug_maps.idx_flow_to_pos_offset, idx),
                            Removed(pos1, idx),
                            Removed(aug_maps.idx_non_unique, idx))
           last == idx = Len(g)
           more == last /\ aug_graph_idx < Len(aug_pdg)
       IN  /\ aug_pdg' = [aug_pdg EXCEPT ![aug_graph_idx][idx].node_info = info]
           /\ aug_maps' =
                IF more THEN NewMaps
                ELSE [aug_maps EXCEPT
                        !.idx_flow_to_mut = Without(@, idx),
                        !.idx_flow_to_use = Without(@, idx),
                        !.idx_flow_to_pos_offset = Without(pos1, idx),
                        !.idx_non_unique = Without(@, idx)]
           /\ aug_node_idx' = IF last THEN 1 ELSE idx + 1
           /\ aug_graph_idx' = IF more THEN aug_graph_idx + 1 ELSE aug_graph_idx
           /\ aug_pc' = IF ~last THEN "assign"
                        ELSE IF more THEN "call" ELSE "done"
    /\ UNCHANGED <<aug_call, aug_locals>>
    /\ AugFrame

NextAugment ==
    \/ BeginCall
    \/ FlowsIter
    \/ LineageIter
    \/ GreatestIter
    \/ RulesIter
    \/ AssignIter

SpecAugment == InitAugment /\ [][NextAugment]_vars

\* The running call takes its next step: augment_with_info is sequential
\* code that is not suspended.
FairSpecAugment == SpecAugment /\ WF_vars(NextAugment)

(***************************************************************************)
(* Properties of augment_with_info run step by step.                       *)
(***************************************************************************)
\* C22: on graphs whose sources have smaller indices, augment_with_info
\* terminates: each of the searches it calls leaves its loop for every
\* start node, and the two loops over the nodes come to their end.
C22_Terminates == <>(aug_pc = "done")

\* The searches run step by step return what the searches of SpecInfo
\* return: at the end every node has the node_info SetNodeInfo gives it.
C22_SameInfo ==
    aug_pc = "done" =>
        \A gi \in 1..Len(aug_pdg) : \A n \in 1..Len(aug_pdg[gi]) :
            LET g == [i \in 1..Len(aug_pdg[gi]) |->
                        [aug_pdg[gi][i] EXCEPT !.node_info = None]]
            IN  aug_pdg[gi][n].node_info =
                    NodeInfo(check_flows_to_node_kind(g, n, "node_does_mutation"),
                             check_flows_to_node_kind(g, n, "node_does_load"),
                             check_flows_to_node_kind(g, n, "node_does_pos_offset"),
                             None,
                             check_whether_rules_obeyed(g, n))

\* The run over a chain of three nodes has come to its end.
C22_Witness ==
    /\ aug_pc = "done"
    /\ Len(aug_pdg) = 1
    /\ Len(aug_pdg[1]) = 3
    /\ aug_pdg[1][2].source = Some(1)
    /\ aug_pdg[1][3].source = Some(2)
    /\ aug_pdg[1][3].node_info # None

\* A search whose work-list holds a node a second time, which the `seen`
\* set makes it skip.
C22_WitnessSeenTwice ==
    /\ aug_pc \in {"check_flows_to_node_kind", "greatest_desc"}
    /\ aug_locals.to_view # <<>>
    /\ aug_locals.to_view[Len(aug_locals.to_view)] \in aug_locals.seen

(***************************************************************************)
(* Properties of create_uniqueness_info and create_flow_info.              *)
(***************************************************************************)
\* The nodes whose source is n.
ChildrenOf(g, n) == {c \in 1..Len(g) : g[c].source = Some(n)}

\* C21: create_uniqueness_info never terminates: the call is never ended,
\* neither by a result nor by a panic, and with the work-list exhausted
\* control is in the loop without exit.
C21_NeverTerminates ==
    /\ upc # "panicked"
    /\ (upc = "view" /\ u_to_view = <<>>) => ENABLED ViewNode

\* What the call does instead: it is aborted by `unwrap` on a graph without
\* nodes or at the first popped node that has no children, and the
\* work-list is never found empty, so `loop { }` is not entered.
C21_AbortsBeforeLoop ==
    /\ upc # "loop"
    /\ upc = "view" => u_to_view # <<>>
    /\ upc = "panicked" =>
          \/ ugraph = <<>>
          \/ curidx \in 1..Len(ugraph) /\ ChildrenOf(ugraph, curidx) = {}

\* A call aborted after two nodes were recorded.
C21_AbortedDeep ==
    /\ upc = "panicked"
    /\ Len(ugraph) >= 3
    /\ \E p \in DOMAIN path_to_fields : Len(path_to_fields[p]) >= 2

\* C23: for every node n of a graph whose sources have smaller indices,
\* create_flow_info's entry for n has each flows_to_* field Some exactly
\* when check_flows_to_node_kind with the matching predicate returns Some,
\* and its last_descendent is greatest_desc(g, n).
C23_FlowInfoAgrees ==
    upc \in {"view", "panicked"} =>
        \A n \in 1..Len(ugraph) :
            LET fi == flow_info[n]
            IN  /\ (fi.flows_to_load # None) <=>
                      (check_flows_to_node_kind(ugraph, n, "node_does_load") # None)
                /\ (fi.flows_to_store # None) <=>
                      (check_flows_to_node_kind(ugraph, n, "node_does_mutation") # None)
                /\ (fi.flows_to_pos_offset # None) <=>
                      (check_flows_to_node_kind(ugraph, n, "node_does_pos_offset") # None)
                /\ (fi.flows_to_neg_offset # None) <=>
                      (check_flows_to_node_kind(ugraph, n, "node_does_neg_offset") # None)
                /\ fi.last_descendent = Some(greatest_desc(ugraph, n))

\* A chain of three nodes whose last node stores: the root's entry has the
\* store and the last descendant from two levels down, and no load.
C23_Witness ==
    /\ upc = "view"
    /\ Len(ugraph) = 3
    /\ ugraph[2].source = Some(1)
    /\ ugraph[3].source = Some(2)
    /\ ~node_does_mutation(ugraph[2])
    /\ flow_info[1].flows_to_store = Some(3)
    /\ flow_info[1].last_descendent = Some(3)
    /\ flow_info[1].flows_to_load = None

\* Two children under one parent, the first of which loads: the parent's
\* entry keeps a load although the child merged last has none.
C23_WitnessSiblings ==
    /\ upc = "view"
    /\ Len(ugraph) = 3
    /\ ugraph[2].source = Some(1)
    /\ ugraph[3].source = Some(1)
    /\ node_does_load(ugraph[2])
    /\ ~node_does_load(ugraph[3])
    /\ flow_info[1].flows_to_load # None

(***************************************************************************)
(* Properties of the type rewrite generator.                               *)
(***************************************************************************)
\* Range a lies within range b.
Within(a, b) == b[1] <= a[1] /\ a[2] <= b[2]
\* Ranges a and b share no position.
Disjoint(a, b) == a[2] <= b[1] \/ b[2] <= a[1]
\* Range a lies within range b and is not b.
StrictlyInside(a, b) == Within(a, b) /\ a # b

\* The edits emitted so far that are keyed by a range within span.
EditsWithin(span) == SelectSeq(hir_rewrites, LAMBDA e : Within(e.span, span))
\* The edits emitted so far that are keyed by exactly span.
EditsAt(span) == SelectSeq(hir_rewrites, LAMBDA e : e.span = span)
\* The handle_ty calls started so far on a written node within span.
CallsWithin(span) == SelectSeq(visited, LAMBDA c : Within(c.hir.span, span))

\* The visit of input i is over and did not panic.
InputDone(i) ==
    \/ tpc \in {"output", "body", "items", "done"}
    \/ tpc = "inputs" /\ cursor > i

\* The parameter is written `*mut u8` and decided (Mut, Slice).
IsMutU8Slice(a) ==
    /\ a.lty = PtrTo("RawPtr", "Mut", U8, TypeDesc("Mut", "Slice"))
    /\ a.hir.kind = "Ptr"
    /\ a.hir.m = "Mut"
    /\ a.hir.args[1].kind = "Path"
    /\ a.hir.args[1].res = "u8"

\* C4: a parameter written `*mut u8` and decided (Mut, Slice) gets exactly
\* one edit, keyed by the range of the parameter's type:
\* TyRef(elided, TySlice(Sub(0, range of u8)), Mut), rendered `&mut [$0]`.
C4_MutSliceParam ==
    \A i \in 1..Len(ZipInputs(prog)) :
        LET a == ZipInputs(prog)[i]
            expected == TyRef(Elided, TySlice(Sub(0, a.hir.args[1].span)), "Mut")
        IN  (IsMutU8Slice(a) /\ InputDone(i))
            => /\ EditsWithin(a.hir.span) = <<Edit(a.hir.span, expected)>>
               /\ to_string(Display(expected)) = "&mut [$0]"

C4_Witness ==
    /\ Len(ZipInputs(prog)) = 2
    /\ IsMutU8Slice(ZipInputs(prog)[2])
    /\ InputDone(2)
    /\ EditsAt(ZipInputs(prog)[2].hir.span) # <<>>

\* The pruning condition, read off the node.
Prunable(lty) ==
    /\ lty.kind # "Adt"
    /\ lty.label.ty_desc = None
    /\ lty.label.descendant_has_rewrite = FALSE

RECURSIVE SynthList(_, _)
RECURSIVE Synth(_)
\* The text of the type that results from applying every decision in the
\* annotated tree: a decided pointer becomes its ownership's pointer or
\* reference to the pointee, the pointee wrapped in a cell for Cell and in a
\* slice for a quantity other than Single.
Synth(lty) ==
    LET d == lty.label.ty_desc
        inner == Synth(lty.args[1])
        celled == IF d.own = "Cell" THEN "core::cell::Cell<" \o inner \o ">"
                  ELSE inner
        sliced == IF d.qty = "Single" THEN celled ELSE "[" \o celled \o "]"
    IN  IF d # None
        THEN CASE d.own = "Raw" -> "*const " \o sliced
               [] d.own = "RawMut" -> "*mut " \o sliced
               [] d.own \in {"Imm", "Cell"} -> "&" \o sliced
               [] d.own = "Mut" -> "&mut " \o sliced
               [] d.own = "Box" -> "Box<" \o sliced \o ">"
        ELSE CASE lty.kind = "Uint" -> lty.name
               [] lty.kind = "RawPtr" /\ lty.m = "Mut" -> "*mut " \o inner
               [] lty.kind = "RawPtr" /\ lty.m = "Not" -> "*const " \o inner
               [] lty.kind = "Ref" /\ lty.m = "Mut" -> "&mut " \o inner
               [] lty.kind = "Ref" /\ lty.m = "Not" -> "&" \o inner
               [] lty.kind = "Slice" -> "[" \o inner \o "]"
               [] lty.kind = "Tuple" -> "(" \o SynthList(lty.args, 1) \o ")"
               [] lty.kind = "Adt" /\ lty.args = <<>> -> lty.name
               [] lty.kind = "Adt" /\ lty.args # <<>> ->
                     lty.name \o "<" \o SynthList(lty.args, 1) \o ">"
SynthList(ltys, i) ==
    IF i = Len(ltys) THEN Synth(ltys[i])
    ELSE Synth(ltys[i]) \o ", " \o SynthList(ltys, i + 1)

\* The call fell back: the node is not pruned and its written form does not
\* decompose against the resolved type.
FellBack(c) ==
    /\ ~Prunable(c.lty)
    /\ deconstruct_hir_ty(c.lty, c.hir) = None

C6_Pruning ==
    \A j \in 1..Len(visited) :
        LET c == visited[j]
        IN  Prunable(c.lty)
            => /\ c.returned
               /\ EditsWithin(c.hir.span) = <<>>
               /\ CallsWithin(c.hir.span) = <<c>>
               /\ handle_ty(c.lty, c.hir, prog.table) = Returned(<<>>, <<c>>)

C6_Witness ==
    \E j \in 1..Len(visited) :
        /\ Prunable(visited[j].lty)
        /\ visited[j].lty.args # <<>>
        /\ visited[j].hir.args # <<>>
        /\ j > 1

\* The structural edit of a decided pointer node, built from the inside out.
StructuralRewrite(c) ==
    LET d == c.lty.label.ty_desc
        placeholder == Sub(0, c.hir.args[1].span)
        celled == IF d.own = "Cell"
                  THEN TyCtor("core::cell::Cell", <<placeholder>>)
                  ELSE placeholder
        sliced == IF d.qty # "Single" THEN TySlice(celled) ELSE celled
        lifetime == IF c.lty.label.lifetime # None
                    THEN Explicit(OriginText(c.lty.label.lifetime))
                    ELSE Elided
    IN  CASE d.own = "Raw" -> TyPtr(sliced, "Not")
          [] d.own = "RawMut" -> TyPtr(sliced, "Mut")
          [] d.own \in {"Imm", "Cell"} -> TyRef(lifetime, sliced, "Not")
          [] d.own = "Mut" -> TyRef(lifetime, sliced, "Mut")

\* The call is on a decided pointer node whose written form decomposes and
\* whose ownership is one of the five that have a wrap.
Structural(c) ==
    /\ c.lty.label.ty_desc # None
    /\ c.lty.label.ty_desc.own \in {"Raw", "RawMut", "Imm", "Cell", "Mut"}
    /\ deconstruct_hir_ty(c.lty, c.hir) # None

\* C7: a handle_ty call on a decided pointer node that decomposes emits
\* exactly one edit keyed by the node's range: Sub(0, pointee range) in a
\* Cell iff own is Cell, in a slice iff qty is not Single, in the pointer or
\* reference of own, the reference with the label's lifetime or an elided one.
C7_StructuralRewrite ==
    \A j \in 1..Len(visited) :
        LET c == visited[j]
        IN  Structural(c)
            => EditsAt(c.hir.span) = <<Edit(c.hir.span, StructuralRewrite(c))>>

C7_Witness ==
    /\ \E j \in 1..Len(visited) :
        /\ Structural(visited[j])
        /\ visited[j].lty.label.ty_desc = TypeDesc("Cell", "Slice")
        /\ EditsAt(visited[j].hir.span) # <<>>
        /\ j > 1
    /\ tpc = "done"

C7_WitnessExplicit ==
    \E j \in 1..Len(visited) :
        /\ Structural(visited[j])
        /\ visited[j].lty.label.lifetime # None
        /\ EditsAt(visited[j].hir.span) # <<>>

\* The visit of struct i is over and did not panic.
ItemDone(i) ==
    \/ tpc = "done"
    \/ tpc = "items" /\ cursor > i

Lifetimes(params) == SelectSeq(params, LAMBDA gp : gp.kind = "Lifetime")
NonLifetimes(params) == SelectSeq(params, LAMBDA gp : gp.kind # "Lifetime")

\* The parameter-list edit's content for a struct st with the inferred
\* lifetimes inferred.
WellOrdered(e, st, inferred) ==
    LET declared == Len(Lifetimes(st.params))
        others == NonLifetimes(st.params)
    IN  /\ e.rw.k = "TyParams"
        /\ Len(e.rw.rws) = Len(inferred) + Len(others)
        /\ \A i \in 1..Len(inferred) :
              e.rw.rws[i] = PrintTy(OriginText(inferred[i]))
        /\ \A i \in 1..Len(others) :
              e.rw.rws[Len(inferred) + i] = PrintTy(others[i].name)
        /\ declared <= Len(inferred)

\* C8: the parameter-list edit of a struct whose inferred lifetime count
\* differs from the declared one is keyed by the generics range and lists one
\* lifetime per declared lifetime parameter, then the new lifetimes, then the
\* non-lifetime parameters in declaration order.
C8_GenericParamsEdit ==
    \A i \in 1..Len(prog.structs) :
        LET st == prog.structs[i]
            inferred == prog.table[st.did].lifetime_params
            declared == Len(Lifetimes(st.params))
            edits == EditsAt(st.generics_span)
        IN  /\ \A n \in 1..Len(edits) :
                  /\ Len(inferred) # declared
                  /\ WellOrdered(edits[n], st, inferred)
            /\ (ItemDone(i) /\ Len(inferred) # declared) => Len(edits) = 1

C8_Witness ==
    \E i \in 1..Len(prog.structs) :
        LET st == prog.structs[i]
            edits == EditsAt(st.generics_span)
        IN  /\ Len(Lifetimes(st.params)) = 0
            /\ Len(NonLifetimes(st.params)) = 2
            /\ Len(prog.table[st.did].lifetime_params) = 2
            /\ Len(edits) = 1
            /\ Len(edits[1].rw.rws) = 4
            /\ edits[1].rw.rws[3] = PrintTy(st.params[1].name)

C8_WitnessKept ==
    \E i \in 1..Len(prog.structs) :
        LET st == prog.structs[i]
        IN  /\ Len(Lifetimes(st.params)) = 1
            /\ Len(prog.table[st.did].lifetime_params) = 2
            /\ Len(EditsAt(st.generics_span)) = 1

\* C9 as stated: the ranges of the emitted edits are pairwise disjoint.
C9_PairwiseDisjoint ==
    \A i, j \in 1..Len(hir_rewrites) :
        i < j => Disjoint(hir_rewrites[i].span, hir_rewrites[j].span)

\* C9: the ranges of any two emitted edits are disjoint or one lies
\* strictly inside the other; they never overlap partially and never
\* coincide.
C9_DisjointOrNested ==
    \A i, j \in 1..Len(hir_rewrites) :
        i < j
        => \/ Disjoint(hir_rewrites[i].span, hir_rewrites[j].span)
           \/ StrictlyInside(hir_rewrites[i].span, hir_rewrites[j].span)
           \/ StrictlyInside(hir_rewrites[j].span, hir_rewrites[i].span)

C9_Witness ==
    /\ Len(hir_rewrites) = 2
    /\ hir_rewrites[1].rw.k = "TyRef"
    /\ hir_rewrites[2].rw.k = "TyRef"
    /\ StrictlyInside(hir_rewrites[2].span, hir_rewrites[1].span)
    /\ hir_rewrites[1].rw.rw = Sub(0, hir_rewrites[2].span)
    /\ tpc = "done"

RECURSIVE Decides(_, _)
\* Some position of the annotated tree carries a decision whose ownership
\* is in owns.
Decides(lty, owns) ==
    \/ lty.label.ty_desc # None /\ lty.label.ty_desc.own \in owns
    \/ \E i \in 1..Len(lty.args) : Decides(lty.args[i], owns)

\* The call is on a decided pointer node whose written form decomposes.
OnStructuralPath(c) ==
    /\ c.lty.label.ty_desc # None
    /\ deconstruct_hir_ty(c.lty, c.hir) # None

\* C11 as stated: a call whose node, or on the fallback path whose tree,
\* carries an Rc or Box decision halts and emits no edit for the node.
C11_RcBoxFatal ==
    \A j \in 1..Len(visited) :
        LET c == visited[j]
            unsupported ==
                \/ OnStructuralPath(c) /\ Decides(c.lty, {"Rc", "Box"})
                   /\ c.lty.label.ty_desc.own \in {"Rc", "Box"}
                \/ FellBack(c) /\ Decides(c.lty, {"Rc", "Box"})
        IN  unsupported => (~c.returned /\ EditsAt(c.hir.span) = <<>>)

\* C11: on the structural path a node decided Rc or Box halts the
\* generation with no edit for the node; on the fallback path a tree with an
\* Rc decision halts it with no edit, while a tree whose unsupported
\* decisions are all Box is synthesized with Box<..> and gets its PrintTy edit.
C11_UnsupportedOwnership ==
    \A j \in 1..Len(visited) :
        LET c == visited[j]
        IN  /\ (OnStructuralPath(c) /\ c.lty.label.ty_desc.own \in {"Rc", "Box"})
               => /\ ~c.returned
                  /\ EditsAt(c.hir.span) = <<>>
                  /\ tpc = "panicked"
                  /\ j = Len(visited)
            /\ (FellBack(c) /\ Decides(c.lty, {"Rc"}))
               => /\ ~c.returned
                  /\ EditsAt(c.hir.span) = <<>>
                  /\ tpc = "panicked"
                  /\ j = Len(visited)
            /\ (FellBack(c) /\ ~Decides(c.lty, {"Rc"}))
               => /\ c.returned
                  /\ EditsAt(c.hir.span)
                       = <<Edit(c.hir.span, PrintTy(Synth(c.lty)))>>

C11_Witness ==
    /\ tpc = "panicked"
    /\ Len(visited) = 2
    /\ OnStructuralPath(visited[1])
    /\ FellBack(visited[2])
    /\ visited[2].lty.label.ty_desc # None
    /\ visited[2].lty.label.ty_desc.own = "Rc"
    /\ EditsAt(visited[2].hir.span) = <<>>

C11_WitnessBox ==
    \E j \in 1..Len(visited) :
        /\ FellBack(visited[j])
        /\ visited[j].lty.label.ty_desc # None
        /\ visited[j].lty.label.ty_desc.own = "Box"
        /\ EditsAt(visited[j].hir.span)
             = <<Edit(visited[j].hir.span, PrintTy("Box<u8>"))>>

RECURSIVE AsSlice(_)
\* The annotated tree with every OffsetPtr decision replaced by Slice.
AsSlice(lty) ==
    [lty EXCEPT
        !.label = IF lty.label.ty_desc # None /\ lty.label.ty_desc.qty = "OffsetPtr"
                  THEN [lty.label EXCEPT
                           !.ty_desc = TypeDesc(lty.label.ty_desc.own, "Slice")]
                  ELSE lty.label,
        !.args = [i \in 1..Len(lty.args) |-> AsSlice(lty.args[i])]]

\* The node of the call is decided OffsetPtr.
IsOffsetPtr(c) ==
    c.lty.label.ty_desc # None /\ c.lty.label.ty_desc.qty = "OffsetPtr"

\* C15: a handle_ty call on a node decided (own, OffsetPtr) ends as the call
\* on the same node decided (own, Slice) does: it returns or halts alike,
\* the edits it leaves within the node are the edits of the Slice call, on
\* the structural path and on the fallback path, and the type synthesized
\* by mk_rewritten_ty is the type synthesized for the Slice decision.
C15_OffsetPtrAsSlice ==
    \A j \in 1..Len(visited) :
        LET c == visited[j]
            s == handle_ty(AsSlice(c.lty), c.hir, prog.table)
        IN  IsOffsetPtr(c)
            => /\ c.returned = ~s.panic
               /\ c.returned => EditsWithin(c.hir.span) = s.rws
               /\ (c.returned /\ OnStructuralPath(c))
                  => /\ EditsAt(c.hir.span) # <<>>
                     /\ EditsAt(c.hir.span)[1]
                          = Edit(c.hir.span,
                                 OwnWrap(c.lty.label.ty_desc.own,
                                         LifetimeType(c.lty.label),
                                         TySlice(CellWrap(c.lty.label.ty_desc.own,
                                             Sub(0, c.hir.args[1].span)))))
               /\ mk_rewritten_ty(c.lty) = mk_rewritten_ty(AsSlice(c.lty))

C15_Witness ==
    \E j \in 1..Len(visited) :
        /\ IsOffsetPtr(visited[j])
        /\ visited[j].returned
        /\ OnStructuralPath(visited[j])
        /\ visited[j].lty.label.ty_desc.own = "Mut"
        /\ EditsAt(visited[j].hir.span)
             = <<Edit(visited[j].hir.span,
                      TyRef(Elided, TySlice(Sub(0, visited[j].hir.args[1].span)),
                            "Mut"))>>

C15_WitnessFallback ==
    \E j \in 1..Len(visited) :
        /\ IsOffsetPtr(visited[j])
        /\ visited[j].returned
        /\ FellBack(visited[j])
        /\ visited[j].lty.label.ty_desc.own = "Cell"
        /\ EditsAt(visited[j].hir.span)
             = <<Edit(visited[j].hir.span,
                      PrintTy("&[core::cell::Cell<u8>]"))>>

\* The two input lists of the signature differ in length.
SignatureMismatch == Len(prog.lty_sig_inputs) # Len(prog.hir_inputs)

\* The call is on a node that is not pruned and whose written form is of
\* another mutability, arity or kind than the resolved type.
ShapeMismatch(c) ==
    /\ ~Prunable(c.lty)
    /\ \/ c.lty.kind = "RawPtr" /\ c.hir.kind = "Ptr" /\ c.lty.m # c.hir.m
       \/ c.lty.kind = "Ref" /\ c.hir.kind = "Rptr" /\ c.lty.m # c.hir.m
       \/ c.lty.kind = "Tuple" /\ c.hir.kind = "Tup"
          /\ Len(c.lty.args) # Len(c.hir.args)
       \/ c.lty.kind = "Slice" /\ c.hir.kind = "Array"
       \/ c.hir.kind = "Path" /\ c.hir.res = "TyAlias"

\* The generation halted at a node that carries an Rc or Box decision.
HaltedOnOwnership ==
    /\ visited # <<>>
    /\ ~visited[Len(visited)].returned
    /\ Decides(visited[Len(visited)].lty, {"Rc", "Box"})

\* The generation halted in visit_item on a struct that declares more
\* lifetime parameters than its metadata holds.
HaltedOnLifetimes ==
    /\ cursor \in 1..Len(prog.structs)
    /\ original_lifetime_param_count(prog.structs[cursor].params)
         > Len(AdtGet(prog.table, prog.structs[cursor].did).lifetime_params)

C17_WitnessTuple ==
    \E j \in 1..Len(visited) :
        /\ ShapeMismatch(visited[j])
        /\ visited[j].lty.kind = "Tuple"
        /\ visited[j].returned

C17_WitnessAbort ==
    /\ SignatureMismatch
    /\ tpc = "panicked"

\* The node carries a pointer decision or a hypothetical lifetime: its own
\* lifetime is hypothetical, or it is a record type whose metadata has a
\* hypothetical lifetime parameter.
HasRewrite(n) ==
    \/ n.label.ty_desc # None
    \/ n.label.lifetime # None /\ n.label.lifetime.kind = "Hypothetical"
    \/ /\ n.kind = "Adt"
       /\ n.name \in DOMAIN prog.table
       /\ \E i \in 1..Len(prog.table[n.name].lifetime_params) :
              prog.table[n.name].lifetime_params[i].kind = "Hypothetical"

RECURSIVE BelowHasRewrite(_)
\* Some proper descendant of the node has a rewrite.
BelowHasRewrite(n) ==
    \E i \in 1..Len(n.args) : HasRewrite(n.args[i]) \/ BelowHasRewrite(n.args[i])

RECURSIVE FlagsDerived(_)
\* At the node and at every node below it, descendant_has_rewrite says
\* whether a proper descendant has a rewrite.
FlagsDerived(n) ==
    /\ n.label.descendant_has_rewrite = BelowHasRewrite(n)
    /\ \A i \in 1..Len(n.args) : FlagsDerived(n.args[i])

\* C18: in every annotated tree handed to handle_ty, built by
\* relabel_rewrites or by the per-field zip, the descendant_has_rewrite flag
\* of every node is true exactly when some proper descendant carries a
\* pointer decision or a hypothetical lifetime, and the label of the node is
\* the one create_rewrite_label computes from the labels of its children.
C18_DerivedFlag ==
    \A j \in 1..Len(visited) :
        /\ FlagsDerived(visited[j].lty)
        /\ visited[j].lty.label.descendant_has_rewrite
             = \E i \in 1..Len(visited[j].lty.args) :
                   LET child == visited[j].lty.args[i]
                   IN  \/ HasRewrite(child)
                       \/ child.label.descendant_has_rewrite

\* A field's tree whose only rewrite is the hypothetical lifetime of the
\* pointee.
C18_Witness ==
    \E j \in 1..Len(visited) :
        LET n == visited[j].lty
        IN  /\ n.label.descendant_has_rewrite
            /\ n.label.ty_desc = None
            /\ Len(n.args) = 1
            /\ n.args[1].label.ty_desc = None
            /\ n.args[1].label.lifetime = Origin("Hypothetical", 0)

\* A tree whose only rewrite is the hypothetical lifetime parameter of the
\* record two levels down.
C18_WitnessAdt ==
    \E j \in 1..Len(visited) :
        LET n == visited[j].lty
        IN  /\ n.label.descendant_has_rewrite
            /\ ~Decides(n, Ownership)
            /\ Len(n.args) = 1
            /\ n.args[1].kind # "Adt"
            /\ n.args[1].label.descendant_has_rewrite
            /\ n.args[1].args[1].kind = "Adt"

\* A tree with an actual lifetime below and the flag false.
C18_WitnessFalse ==
    \E j \in 1..Len(visited) :
        LET n == visited[j].lty
        IN  /\ ~n.label.descendant_has_rewrite
            /\ Len(n.args) = 1
            /\ n.args[1].label.lifetime = Origin("Actual", 0)

\* The visit of struct i is over: it returned, or it halted the generation.
ItemVisited(i) ==
    \/ ItemDone(i)
    \/ tpc = "panicked" /\ cursor = i /\ ZipInputs(prog) = <<>>
       /\ prog.output = None /\ prog.locals = <<>>

\* C19 as stated: once a struct declaration is visited there is exactly one
\* parameter-list edit keyed by its generics range if the inferred
\* lifetime-parameter count differs from the declared one, larger or
\* smaller, and none if the two counts are equal.
C19_GenericsEditIffDiffer ==
    \A i \in 1..Len(prog.structs) :
        LET st == prog.structs[i]
            inferred == Len(prog.table[st.did].lifetime_params)
            declared == Len(Lifetimes(st.params))
            edits == EditsAt(st.generics_span)
        IN  ItemVisited(i)
            => /\ inferred # declared
                  => (Len(edits) = 1 /\ edits[1].rw.k = "TyParams")
               /\ inferred = declared => edits = <<>>

\* C19: once a struct declaration is visited there is exactly one
\* parameter-list edit keyed by its generics range when the inferred
\* lifetime-parameter count is larger than the declared one and none when
\* the counts are equal; when it is smaller the visit halts the generation
\* before any edit.
C19_LargerOrEqual ==
    \A i \in 1..Len(prog.structs) :
        LET st == prog.structs[i]
            inferred == Len(prog.table[st.did].lifetime_params)
            declared == Len(Lifetimes(st.params))
            edits == EditsAt(st.generics_span)
        IN  /\ ItemVisited(i)
               => /\ inferred > declared
                     => (Len(edits) = 1 /\ edits[1].rw.k = "TyParams")
                  /\ inferred = declared => edits = <<>>
                  /\ inferred < declared
                     => (tpc = "panicked" /\ edits = <<>> /\ visited = <<>>)
            /\ inferred < declared => ~ItemDone(i)

\* A struct declaring one lifetime with two inferred got its edit.
C19_Witness ==
    \E i \in 1..Len(prog.structs) :
        /\ ItemDone(i)
        /\ Len(Lifetimes(prog.structs[i].params)) = 1
        /\ Len(prog.table[prog.structs[i].did].lifetime_params) = 2
        /\ Len(EditsAt(prog.structs[i].generics_span)) = 1
        /\ EditsAt(prog.structs[i].generics_span)[1].rw.k = "TyParams"

C19_WitnessHalt ==
    \E i \in 1..Len(prog.structs) :
        /\ ItemVisited(i)
        /\ tpc = "panicked"
        /\ Len(Lifetimes(prog.structs[i].params)) = 2
        /\ Len(prog.table[prog.structs[i].did].lifetime_params) = 1
        /\ hir_rewrites = <<>>

C19_WitnessEqual ==
    \E i \in 1..Len(prog.structs) :
        /\ ItemDone(i)
        /\ Len(Lifetimes(prog.structs[i].params)) = 2
        /\ Len(prog.table[prog.structs[i].did].lifetime_params) = 2
        /\ EditsAt(prog.structs[i].generics_span) = <<>>

\* The edit set of the unit: the results of the finished runs and the
\* edits of the current run, concatenated.
EditSet == unit_rewrites \o hir_rewrites

\* C20: no two edits of the unit's edit set are keyed by the same range.
C20_OneEditPerRange ==
    \A i \in 1..Len(EditSet) : \A j \in 1..Len(EditSet) :
        i # j => EditSet[i].span # EditSet[j].span

\* Within the result of one run of gen_ty_rewrites no two edits are keyed
\* by the same range.
C20_OneEditPerRangeInRun ==
    \A i \in 1..Len(hir_rewrites) : \A j \in 1..Len(hir_rewrites) :
        i # j => hir_rewrites[i].span # hir_rewrites[j].span

\* The second run of a unit repeated the parameter-list edit of the first.
C20_WitnessTwice ==
    /\ Len(unit_rewrites) = 1
    /\ Len(hir_rewrites) = 1
    /\ unit_rewrites[1] = hir_rewrites[1]
    /\ hir_rewrites[1].rw.k = "TyParams"
    /\ tpc = "done"

RECURSIVE Denoted(_, _)
\* The type a structural rewrite denotes when Sub stands for pointee: a
\* TyCtor is the ADT of its name over its arguments, TySlice a slice, TyPtr a
\* raw pointer and TyRef a reference of the rewrite's mutability.
Denoted(t, pointee) ==
    CASE t.k = "Sub" -> pointee
      [] t.k = "TyCtor" ->
            Ty("Adt", "Not", t.name,
               [i \in 1..Len(t.rws) |-> Denoted(t.rws[i], pointee)])
      [] t.k = "TySlice" -> Ty("Slice", "Not", "", <<Denoted(t.rw, pointee)>>)
      [] t.k = "TyPtr" -> Ty("RawPtr", t.mutbl, "", <<Denoted(t.rw, pointee)>>)
      [] t.k = "TyRef" -> Ty("Ref", t.mutbl, "", <<Denoted(t.rw, pointee)>>)

\* The call is on a decided pointer node whose written form decomposes and
\* whose pointee mk_rewritten_ty synthesizes.
Comparable(c) ==
    /\ OnStructuralPath(c)
    /\ mk_rewritten_ty(c.lty.args[1]) # Panicked

\* The structural edit of the call's node denotes the type mk_rewritten_ty
\* synthesizes for the node.
SameType(c) ==
    /\ Len(EditsAt(c.hir.span)) = 1
    /\ Denoted(EditsAt(c.hir.span)[1].rw, mk_rewritten_ty(c.lty.args[1]))
         = mk_rewritten_ty(c.lty)

\* C24 as stated: the structural edit of a decided pointer node denotes the
\* type mk_rewritten_ty synthesizes for the node whenever both paths
\* support the decision, and the two paths support the same ownerships: the
\* node gets its structural edit exactly when mk_rewritten_ty returns.
C24_PathsAgree ==
    \A j \in 1..Len(visited) :
        LET c == visited[j]
        IN  Comparable(c)
            => /\ (EditsAt(c.hir.span) # <<>> /\ mk_rewritten_ty(c.lty) # Panicked)
                  => SameType(c)
               /\ (EditsAt(c.hir.span) # <<>>) <=> (mk_rewritten_ty(c.lty) # Panicked)

\* C24: for the five ownerships both paths support, the structural edit of
\* a decided pointer node denotes the type mk_rewritten_ty synthesizes for
\* the node (same cell, slice and pointer or reference nesting, same
\* mutability); Rc is supported by neither path; Box is supported by
\* mk_rewritten_ty alone, which synthesizes Box over the pointee, while the
\* structural path halts without an edit.
C24_PathsAgreeButBox ==
    \A j \in 1..Len(visited) :
        LET c == visited[j]
            own == c.lty.label.ty_desc.own
            qty == c.lty.label.ty_desc.qty
        IN  Comparable(c)
            => /\ own \in {"Raw", "RawMut", "Imm", "Cell", "Mut"} => SameType(c)
               /\ own = "Rc"
                  => /\ EditsAt(c.hir.span) = <<>>
                     /\ ~c.returned
                     /\ mk_rewritten_ty(c.lty) = Panicked
               /\ own = "Box"
                  => /\ EditsAt(c.hir.span) = <<>>
                     /\ ~c.returned
                     /\ mk_rewritten_ty(c.lty)
                          = Ty("Adt", "Not", "Box",
                               <<mk_qty_ty(qty, mk_rewritten_ty(c.lty.args[1]))>>)

\* A shared reference to a slice of cells on both paths.
C24_Witness ==
    \E j \in 1..Len(visited) :
        /\ Comparable(visited[j])
        /\ visited[j].lty.label.ty_desc = TypeDesc("Cell", "OffsetPtr")
        /\ SameType(visited[j])
        /\ mk_rewritten_ty(visited[j].lty).kind = "Ref"
        /\ mk_rewritten_ty(visited[j].lty).args[1].kind = "Slice"
        /\ mk_rewritten_ty(visited[j].lty).args[1].args[1].name = "core::cell::Cell"

\* A pointee that is itself rewritten: the decided pointer's pointee is a
\* decided pointer.
C24_WitnessNested ==
    \E j \in 1..Len(visited) :
        /\ Comparable(visited[j])
        /\ visited[j].lty.label.ty_desc # None
        /\ visited[j].lty.label.ty_desc.own = "Mut"
        /\ visited[j].lty.args[1].label.ty_desc # None
        /\ SameType(visited[j])

\* A Box decision on a node that decomposes: halted on the structural
\* path, synthesized by mk_rewritten_ty.
C24_WitnessBox ==
    \E j \in 1..Len(visited) :
        /\ Comparable(visited[j])
        /\ visited[j].lty.label.ty_desc.own = "Box"
        /\ ~visited[j].returned
        /\ mk_rewritten_ty(visited[j].lty) # Panicked

RECURSIVE Undecided(_, _)
\* No position of the labelled tree carries a pointer decision, and no
\* hypothetical lifetime is involved: none on a position, none among the
\* lifetime parameters the table gives an ADT of the tree.
Undecided(lty, table) ==
    /\ lty.label.ty_desc = None
    /\ lty.label.lifetime # None => lty.label.lifetime.kind # "Hypothetical"
    /\ (lty.kind = "Adt" /\ lty.name \in DOMAIN table)
       => \A i \in 1..Len(table[lty.name].lifetime_params) :
              table[lty.name].lifetime_params[i].kind # "Hypothetical"
    /\ \A i \in 1..Len(lty.args) : Undecided(lty.args[i], table)

RECURSIVE NamesAdt(_)
\* Some position of the tree is an ADT.
NamesAdt(lty) ==
    \/ lty.kind = "Adt"
    \/ \E i \in 1..Len(lty.args) : NamesAdt(lty.args[i])

\* The node is written as a path whose last segment has generic arguments,
\* no more than the ADT has type arguments.
WrittenWithArgs(c) ==
    /\ c.hir.kind = "Path"
    /\ c.hir.has_args
    /\ Len(c.hir.args) <= Len(c.lty.args)

\* The constructor edit of an ADT node: the ADT's name over the text of the
\* table's lifetime parameters and of the type arguments.
CtorOf(c, table) ==
    TyCtor(c.lty.name,
           [i \in 1..Len(table[c.lty.name].lifetime_params) |->
               PrintTy(OriginText(table[c.lty.name].lifetime_params[i]))]
           \o [i \in 1..Len(c.lty.args) |-> PrintTy(Synth(c.lty.args[i]))])

\* C25 as stated: a handle_ty call on an annotation without a pointer
\* decision and without a hypothetical lifetime, record types included,
\* emits no edit within the annotation.
C25_NoDecisionNoEdit ==
    \A j \in 1..Len(visited) :
        LET c == visited[j]
        IN  (Undecided(c.lty, prog.table) /\ c.returned)
            => EditsWithin(c.hir.span) = <<>>

\* C25: a handle_ty call on an annotation without a pointer decision and
\* without a hypothetical lifetime emits no edit and visits nothing below
\* when the annotation's node is not a record type, also when record types
\* are named below it.  A record-type node is not pruned: written with
\* generic arguments it gets the constructor edit when the metadata table
\* has the record and no edit when it has not; written in another way
\* (without generic arguments, as an alias) it gets the full-type-text edit.
C25_NoEditUnlessRecord ==
    \A j \in 1..Len(visited) :
        LET c == visited[j]
            edits == EditsWithin(c.hir.span)
        IN  Undecided(c.lty, prog.table)
            => /\ c.returned
               /\ CallsWithin(c.hir.span) = <<c>>
               /\ c.lty.kind # "Adt" => edits = <<>>
               /\ (c.lty.kind = "Adt" /\ WrittenWithArgs(c)
                      /\ c.lty.name \in DOMAIN prog.table)
                  => edits = <<Edit(c.hir.span, CtorOf(c, prog.table))>>
               /\ (c.lty.kind = "Adt" /\ WrittenWithArgs(c)
                      /\ c.lty.name \notin DOMAIN prog.table)
                  => edits = <<>>
               /\ (c.lty.kind = "Adt" /\ ~WrittenWithArgs(c))
                  => edits = <<Edit(c.hir.span, PrintTy(Synth(c.lty)))>>

\* A tuple that names a record type, written as a tuple: pruned.
C25_Witness ==
    \E j \in 1..Len(visited) :
        /\ Undecided(visited[j].lty, prog.table)
        /\ visited[j].lty.kind = "Tuple"
        /\ visited[j].hir.kind = "Tup"
        /\ NamesAdt(visited[j].lty)
        /\ visited[j].returned
        /\ hir_rewrites = <<>>
        /\ tpc = "done"

\* The record S written `S`: the full-type-text edit.
C25_WitnessBare ==
    \E j \in 1..Len(visited) :
        /\ Undecided(visited[j].lty, prog.table)
        /\ visited[j].lty.kind = "Adt"
        /\ visited[j].hir.kind = "Path"
        /\ visited[j].hir.res = "S"
        /\ EditsAt(visited[j].hir.span) = <<Edit(visited[j].hir.span, PrintTy("S"))>>

\* The record G written with its type argument: the constructor edit.
C25_WitnessCtor ==
    \E j \in 1..Len(visited) :
        /\ Undecided(visited[j].lty, prog.table)
        /\ visited[j].lty.name = "G"
        /\ WrittenWithArgs(visited[j])
        /\ EditsAt(visited[j].hir.span)
             = <<Edit(visited[j].hir.span, TyCtor("G", <<PrintTy("u8")>>))>>

\* The ADT F of another crate written with its type argument: no edit.
C25_WitnessForeign ==
    \E j \in 1..Len(visited) :
        /\ Undecided(visited[j].lty, prog.table)
        /\ visited[j].lty.name = "F"
        /\ WrittenWithArgs(visited[j])
        /\ visited[j].returned
        /\ hir_rewrites = <<>>
        /\ tpc = "done"

(***************************************************************************)
(* Properties of deconstruct_hir_ty.                                       *)
(***************************************************************************)
FixedArityKinds == {"Array", "Slice", "RawPtr", "Ref", "Tuple"}

\* The number of child types of a resolved type of a primitive or
\* fixed-arity kind; a tuple has as many as it has elements.
ChildCount(ty) ==
    CASE ty.kind \in PrimKinds -> 0
      [] ty.kind \in {"Array", "Slice", "RawPtr", "Ref"} -> 1
      [] ty.kind = "Tuple" -> Len(ty.args)

\* C16: when deconstruct_hir_ty returns Some on a resolved type of a
\* primitive or fixed-arity kind, it returns as many written children as
\* the resolved type has children (0 for a primitive, 1 for an array, a
\* slice, a raw pointer and a reference, n for an n-tuple), and the pairing
\* of handle_ty pairs resolved child i with written child i for every i.
C16_DecompositionTotal ==
    LET ty == dec_in.lty
    IN  (dpc \in {"deconstructed", "zipped"} /\ dec_out # None
         /\ ty.kind \in PrimKinds \cup FixedArityKinds)
        => /\ Len(dec_out.v) = ChildCount(ty)
           /\ Len(ty.args) = ChildCount(ty)
           /\ dec_out.v = dec_in.hir.args
           /\ dpc = "zipped"
              => /\ Len(zipped) = ChildCount(ty)
                 /\ \A i \in 1..Len(ty.args) :
                        zipped[i] = Annot(ty.args[i], dec_in.hir.args[i])

C16_Witness ==
    /\ dpc = "zipped"
    /\ dec_in.lty.kind = "Tuple"
    /\ Len(dec_in.lty.args) = 2
    /\ Len(zipped) = 2

C16_WitnessPrim ==
    /\ dpc = "zipped"
    /\ dec_in.lty.kind = "Float"
    /\ dec_out = Some(<<>>)

C16_WitnessArray ==
    /\ dpc = "zipped"
    /\ dec_in.lty.kind = "Array"
    /\ Len(zipped) = 1

(***************************************************************************)
(* Properties of apply_rewrites.                                           *)
(***************************************************************************)
\* The file's output can be written to a real, addressable path.
Writable(f) == f.kind = "Real" /\ f.writable

\* Some log line after the dump names the file as skipped.
LoggedSkipped(f) ==
    \E i \in 1..Len(stderr) :
        /\ stderr[i].file = f.name
        /\ stderr[i].msg \notin {"BEGIN", "END"}

\* C10: a file without a real, addressable path or whose output cannot be
\* written is skipped with a log line that names it; the call does not
\* abort, and every other file is written.
C10_OutputErrorsNonFatal ==
    /\ apc # "panicked"
    /\ apc = "returned"
       => \A i \in 1..Len(new_src) :
             IF Writable(new_src[i])
             THEN with_extension(new_src[i].name) \in written
             ELSE /\ with_extension(new_src[i].name) \notin written
                  /\ LoggedSkipped(new_src[i])

(***************************************************************************)
(* Properties of the node information.                                     *)
(***************************************************************************)
RECURSIVE AncestorsOrSelf(_, _)
\* The node and the nodes met by following source edges up from it.
AncestorsOrSelf(g, d) ==
    IF g[d].source = None THEN {d}
    ELSE {d} \cup AncestorsOrSelf(g, g[d].source.v)

\* The node and its descendants: the nodes that reach it by source edges.
DescOrSelf(g, n) == {d \in 1..Len(g) : n \in AncestorsOrSelf(g, d)}

IsMutation(n) == n.kind \in {StoreAddr, StoreValue}
IsLoad(n) == n.kind \in {LoadAddr, LoadValue}
IsPosOffset(n) == n.kind.k = "Offset" /\ n.kind.x > 0
IsNegOffset(n) == n.kind.k = "Offset" /\ n.kind.x < 0

\* The field is Some(d) for a node d of targets if there is one, else None.
PointsInto(field, targets) ==
    IF targets = {} THEN field = None
    ELSE field # None /\ field.v \in targets

\* C12: when augment_with_info is over every node has its node_info, and
\* flows_to_mutation, flows_to_load and flows_to_pos_offset are each Some(d)
\* for a node d of that kind among the node and its descendants if there is
\* one, and None otherwise.
C12_FlowsToKinds ==
    \A gi \in 1..Len(pdg) : \A i \in 1..Len(pdg[gi]) :
        LET g == pdg[gi]
            info == g[i].node_info
            desc == DescOrSelf(g, i)
        IN  /\ ipc = "done" => info # None
            /\ info # None
               => /\ PointsInto(info.flows_to_mutation,
                                {d \in desc : IsMutation(g[d])})
                  /\ PointsInto(info.flows_to_load,
                                {d \in desc : IsLoad(g[d])})
                  /\ PointsInto(info.flows_to_pos_offset,
                                {d \in desc : IsPosOffset(g[d])})

C12_Witness ==
    /\ ipc = "done"
    /\ Len(pdg) = 2
    /\ Len(pdg[2]) = 3
    /\ pdg[2][3].kind = Offset(1)
    /\ pdg[2][2].kind = Offset(0)
    /\ pdg[2][1].node_info.flows_to_pos_offset = Some(3)
    /\ pdg[2][1].node_info.flows_to_mutation = None
    /\ pdg[1][1].node_info.flows_to_mutation = Some(3)

\* C13: when a node has its node_info, flows_to_neg_offset is Some(d) for
\* an Offset node d with a negative offset among the node and its
\* descendants if there is one, and None otherwise.
C13_FlowsToNegOffset ==
    \A gi \in 1..Len(pdg) : \A i \in 1..Len(pdg[gi]) :
        LET g == pdg[gi]
            info == g[i].node_info
        IN  info # None
            => PointsInto(info.flows_to_neg_offset,
                          {d \in DescOrSelf(g, i) : IsNegOffset(g[d])})

IsCfo(n) == n.kind.k \in {"Copy", "Field", "Offset"}

RECURSIVE HighestAncestor(_, _)
\* The highest ancestor of n reached through Copy, Field and Offset nodes.
HighestAncestor(g, n) ==
    IF IsCfo(g[n]) /\ g[n].source # None
    THEN HighestAncestor(g, g[n].source.v) ELSE n

RECURSIVE FieldsUp(_, _, _)
\* The fields of the Field nodes from z up to, and without, the ancestor a.
FieldsUp(g, z, a) ==
    IF z = a \/ g[z].source = None THEN <<>>
    ELSE (IF g[z].kind.k = "Field" THEN <<g[z].kind.f>> ELSE <<>>)
         \o FieldsUp(g, g[z].source.v, a)

RECURSIVE CfoBelow(_, _, _)
\* z lies strictly below a and every node from z up to, and without, a is a
\* Copy, Field or Offset.
CfoBelow(g, z, a) ==
    /\ z # a
    /\ IsCfo(g[z])
    /\ g[z].source # None
    /\ (g[z].source.v = a \/ CfoBelow(g, g[z].source.v, a))

RECURSIVE AnyBelow(_, _, _)
\* z lies strictly below a.
AnyBelow(g, z, a) ==
    /\ z # a
    /\ g[z].source # None
    /\ (g[z].source.v = a \/ AnyBelow(g, g[z].source.v, a))

Greatest(ids) == CHOOSE x \in ids : \A y \in ids : y <= x

\* z shows that n is not unique, as C14 words it.
BreaksUniqueness(g, n, z) ==
    LET a == HighestAncestor(g, n)
    IN  /\ z # n
        /\ z \notin DescOrSelf(g, n)
        /\ CfoBelow(g, z, a)
        /\ FieldsUp(g, z, a) = FieldsUp(g, n, a)
        /\ n <= z
        /\ z <= Greatest(DescOrSelf(g, n))

\* The nodes of the current graph whose first-loop iteration is over and
\* whose map entries are still in place.
Checked(i) ==
    \/ ipc = "check" /\ i < node_idx
    \/ ipc = "assign" /\ i >= node_idx

\* C14: check_whether_rules_obeyed(g, n) is Some(z) only for a z that breaks
\* the uniqueness of n, and None exactly when no node does.
C14_RulesObeyed ==
    ipc \in {"check", "assign"}
    => \A n \in 1..Len(pdg[graph_idx]) :
          LET g == pdg[graph_idx]
              r == Removed(idx_maps.idx_non_unique, n)
          IN  Checked(n)
              => /\ r # None => BreaksUniqueness(g, n, r.v)
                 /\ r = None <=> ~\E z \in 1..Len(g) : BreaksUniqueness(g, n, z)

=============================================================================
